---- MODULE Spec2Model ----
(***************************************************************************)
(* A model of the social-content engine: the angle classifier (both        *)
(* implementations), the priority scorer, the batch processor with its     *)
(* exports, and the two row-join / field-extraction loops.                 *)
(*                                                                         *)
(* Numbers.  Python floats are modelled as exact fixed-point numbers with  *)
(* two decimals: the integer n stands for n/100 (Fx(5) = 500 stands for    *)
(* 5.0).  Ranks and counters are plain integers.  A value read out of a    *)
(* dict or a row is a record [k, v]:                                       *)
(*   k = "num"      a number, v its value                                  *)
(*   k = "nan"      float('nan'): every ordered comparison is False        *)
(*   k = "missing"  the key is not in the dict (dict.get gives its default)*)
(*   k = "none"     None: an ordered comparison with it raises TypeError   *)
(* completeness_score is kept in thirds: v stands for v/3.                 *)
(***************************************************************************)
EXTENDS Integers, Sequences, FiniteSets, TLC

VARIABLES
    event,          \* classifier: the enriched event handed to identify_content_angles
    angles,         \* classifier: result of BatchProcessor._identify_content_angles
    top3,           \* classifier: result of SocialContentPipeline.identify_content_angles
    selected,       \* classifier: the batch's selection angles[:max_content], with the max
    pcC,            \* classifier: "idle" | "start" | "batch" | "done" | "selected"
    pevent,         \* priority scorer: the event
    pangle,         \* priority scorer: the angle
    priority,       \* priority scorer: result of _calculate_content_priority
    priority_score, \* priority scorer: result of the dashboard's calculate_priority_score
    pcP,            \* priority scorer: "idle" | "start" | "done" | "scored"
    events,         \* batch: the list handed to process_events_batch
    max_content,    \* batch: max_content_per_event
    idx,            \* batch: events already taken by the for loop
    all_content,    \* batch: the content list built so far / returned
    processed_count,\* batch: BatchProcessor.processed_count
    error_count,    \* batch: BatchProcessor.error_count
    calls,          \* batch: the text-generation calls made, with their outcome
    batch_no,       \* batch: how many process_events_batch calls this BatchProcessor got
    pcB,            \* batch: "idle" | "loop" | "returned"; pipeline: "generate" |
                    \*   "generated" | "raised"
    exported,       \* batch: what the last export call returned (or that it raised)
    dataframes,     \* enrichment: the four query results (base, hist, trend, market)
    enricher,       \* enrichment: "none" | "pipeline" | "processor"
    row,            \* enrichment: base rows already taken by the for loop
    structured_events, \* enrichment: the enriched events built so far / returned
    clock,          \* enrichment: the time datetime.now() reads
    again,          \* enrichment: an event extracted a second time from the same rows
    joined,         \* enrichment: what the joins of the last iteration returned
    api_outcome,    \* text generation: what the API call does (answers or raises)
    post,           \* text generation: what create_social_post returned
    pcG,            \* text generation: "idle" | "start" | "done"
    pcE,            \* enrichment: "idle" | "start" | "loop" | "returned" | "raised"
    warehouse,      \* pipeline run: the rows the four views hold
    pending,        \* pipeline run: the views query_top_events_views has yet to query
    reported,       \* pipeline run: the views whose query failure was printed
    pcR,            \* pipeline run: "idle" | "query" | "structure" | "generate" |
                    \*   "no_events" | "raised" | "done"
    up,             \* dashboard: the warehouse accepts connections
    cache,          \* dashboard: the st.cache_data entry of load_snowflake_data
    session_state,  \* dashboard: st.session_state (the keys of the data loading)
    connections,    \* dashboard: the connections of the two connectors after the
                    \*   last execution of load_snowflake_data
    last_load       \* dashboard: what the last rerun of the page did

varsC == <<event, angles, top3, selected, pcC>>
varsP == <<pevent, pangle, priority, priority_score, pcP>>
varsB == <<events, max_content, idx, all_content, processed_count, error_count,
           calls, batch_no, pcB, exported>>
varsE == <<dataframes, enricher, row, structured_events, joined, clock, again, pcE>>
varsG == <<api_outcome, post, pcG>>
varsR == <<warehouse, pending, reported, pcR>>
varsD == <<up, cache, session_state, connections, last_load>>
vars == <<varsC, varsP, varsB, varsE, varsG, varsR, varsD>>
exceptC == <<varsP, varsB, varsE, varsG, varsR, varsD>>
exceptP == <<varsC, varsB, varsE, varsG, varsR, varsD>>
exceptB == <<varsC, varsP, varsE, varsG, varsR, varsD>>
exceptE == <<varsC, varsP, varsB, varsG, varsR, varsD>>
exceptG == <<varsC, varsP, varsB, varsE, varsR, varsD>>
exceptR == <<varsC, varsP, varsG, varsD>>
exceptD == <<varsC, varsP, varsB, varsE, varsG, varsR>>

----------------------------------------------------------------------------
(* Values *)

Fx(n) == n * 100

Num(n) == [k |-> "num", v |-> n]
NaN == [k |-> "nan", v |-> 0]
Missing == [k |-> "missing", v |-> 0]
\* Python's None stored under a key: an ordered comparison with it raises TypeError
None == [k |-> "none", v |-> 0]

\* dict.get(key, default): the default only when the key is missing
Get(x, default) == IF x.k = "missing" THEN Num(default) ELSE x

\* Python's ordered comparisons on floats: False as soon as one side is nan
GE(x, t) == x.k = "num" /\ x.v >= t
GT(x, t) == x.k = "num" /\ x.v > t
LE(x, t) == x.k = "num" /\ x.v <= t

\* truthiness of a string-valued entry: None, "" and a missing key are falsy
Str(s) == [k |-> "str", s |-> s]
NoStr == [k |-> "missing", s |-> ""]
Truthy(x) == (x.k = "str" /\ x.s # "") \/ x.k = "nan"

Range(s) == {s[i] : i \in DOMAIN s}
Min(a, b) == IF a <= b THEN a ELSE b
Take(s, n) == SubSeq(s, 1, Min(n, Len(s)))

----------------------------------------------------------------------------
(* Angle classifier, src/batch_processor.py:128-174 *)

\* the bug of writing three independent ifs instead of if/elif/elif
CareerAngle_ifs(career_multiple) ==
    (IF GE(career_multiple, Fx(5)) THEN <<"major_spike">> ELSE <<>>)
    \o (IF GE(career_multiple, Fx(3)) THEN <<"significant_spike">> ELSE <<>>)
    \o (IF GE(career_multiple, Fx(2)) THEN <<"notable_performance">> ELSE <<>>)

CareerAngle(career_multiple) ==
    IF GE(career_multiple, Fx(5)) THEN <<"major_spike">>
    ELSE IF GE(career_multiple, Fx(3)) THEN <<"significant_spike">>
    ELSE IF GE(career_multiple, Fx(2)) THEN <<"notable_performance">>
    ELSE <<>>

IntlAngle(intl_pct) ==
    IF GT(intl_pct, Fx(40)) THEN <<"international_phenomenon">>
    ELSE IF GT(intl_pct, Fx(25)) THEN <<"international_appeal">>
    ELSE <<>>

GenreAngle(genre_rank) ==
    IF LE(genre_rank, 3) THEN <<"genre_leader">>
    ELSE IF LE(genre_rank, 10) THEN <<"top_performer">>
    ELSE <<>>

PriceAngle(price_appreciation) ==
    IF GT(price_appreciation, Fx(30)) THEN <<"pricing_surge">>
    ELSE IF GT(price_appreciation, Fx(15)) THEN <<"demand_indicator">>
    ELSE <<>>

TourAngle(tour_multiple, tour_name) ==
    IF GT(tour_multiple, 150) /\ Truthy(tour_name) THEN <<"tour_standout">> ELSE <<>>

\* the bug of testing rank < 5 for the fallback
DefaultAngle_strict(rank) ==
    IF rank.k = "num" /\ rank.v < 5 THEN <<"top_performance">> ELSE <<"trending_event">>

DefaultAngle(rank) ==
    IF LE(rank, 5) THEN <<"top_performance">> ELSE <<"trending_event">>

\* the bug of evaluating the genre rule before the international rule
MatchedAngles_reordered(e) ==
    CareerAngle(Get(e.vs_career_avg_multiple, 0))
    \o GenreAngle(Get(e.ytd_genre_rank, 999))
    \o IntlAngle(Get(e.international_pct, 0))
    \o PriceAngle(Get(e.price_appreciation_pct, 0))
    \o TourAngle(Get(e.vs_tour_avg_multiple, 0), e.tour_name)

\* the category rules in the order the code evaluates and appends them
MatchedAngles(e) ==
    CareerAngle(Get(e.vs_career_avg_multiple, 0))
    \o IntlAngle(Get(e.international_pct, 0))
    \o GenreAngle(Get(e.ytd_genre_rank, 999))
    \o PriceAngle(Get(e.price_appreciation_pct, 0))
    \o TourAngle(Get(e.vs_tour_avg_multiple, 0), e.tour_name)

BP_identify_content_angles(e) ==
    LET matched == MatchedAngles(e)
    IN  IF matched = <<>> THEN DefaultAngle(Get(e.rank, 10)) ELSE matched

\* _process_single_event, lines 78-81: angles[:max_content]
SelectedAngles(e, max) == Take(BP_identify_content_angles(e), max)

(* Angle classifier, src/social_content_generator.py:272-318: the same rules
   written a second time, followed by angles[:3] *)

SCP_CareerAngle(career_multiple) ==
    IF GE(career_multiple, Fx(5)) THEN <<"major_spike">>
    ELSE IF GE(career_multiple, Fx(3)) THEN <<"significant_spike">>
    ELSE IF GE(career_multiple, Fx(2)) THEN <<"notable_performance">>
    ELSE <<>>

\* the mistake of taking 40 percent itself for a phenomenon
SCP_IntlAngle_inclusive(e) ==
    IF GE(Get(e.international_pct, 0), Fx(40)) THEN <<"international_phenomenon">>
    ELSE IF GT(Get(e.international_pct, 0), Fx(25)) THEN <<"international_appeal">>
    ELSE <<>>

SCP_IntlAngle(e) ==
    IF GT(Get(e.international_pct, 0), Fx(40)) THEN <<"international_phenomenon">>
    ELSE IF GT(Get(e.international_pct, 0), Fx(25)) THEN <<"international_appeal">>
    ELSE <<>>

SCP_GenreAngle(genre_rank) ==
    IF LE(genre_rank, 3) THEN <<"genre_leader">>
    ELSE IF LE(genre_rank, 10) THEN <<"top_performer">>
    ELSE <<>>

SCP_PriceAngle(price_appreciation) ==
    IF GT(price_appreciation, Fx(30)) THEN <<"pricing_surge">>
    ELSE IF GT(price_appreciation, Fx(15)) THEN <<"demand_indicator">>
    ELSE <<>>

SCP_TourAngle(e) ==
    IF Truthy(e.tour_name)
    THEN IF GT(Get(e.vs_tour_avg_multiple, 0), 150) THEN <<"tour_standout">> ELSE <<>>
    ELSE <<>>

SCP_DefaultAngle(rank) ==
    IF LE(rank, 5) THEN <<"top_performance">> ELSE <<"trending_event">>

SCP_identify_content_angles(e) ==
    LET matched == SCP_CareerAngle(Get(e.vs_career_avg_multiple, 0))
                   \o SCP_IntlAngle(e)
                   \o SCP_GenreAngle(Get(e.ytd_genre_rank, 999))
                   \o SCP_PriceAngle(Get(e.price_appreciation_pct, 0))
                   \o SCP_TourAngle(e)
        all == IF matched = <<>> THEN SCP_DefaultAngle(Get(e.rank, 10)) ELSE matched
    IN  Take(all, 3)

----------------------------------------------------------------------------
(* Priority scorer, src/batch_processor.py:176-206 *)

\* the bug of swapping the boosts of the two best buckets
RankBoost_swapped(rank) ==
    IF LE(rank, 3) THEN 2
    ELSE IF LE(rank, 5) THEN 3
    ELSE IF LE(rank, 10) THEN 1
    ELSE 0

RankBoost(rank) ==
    IF LE(rank, 3) THEN 3
    ELSE IF LE(rank, 5) THEN 2
    ELSE IF LE(rank, 10) THEN 1
    ELSE 0

high_impact_angles ==
    {"major_spike", "international_phenomenon", "genre_leader", "pricing_surge"}

AngleBoost(angle) == IF angle \in high_impact_angles THEN 2 ELSE 0

\* data_score >= 0.8, data_score being v/3: v/3 >= 4/5 iff 5v >= 12
DataBoost(data_score) ==
    IF data_score.k = "num" /\ 5 * data_score.v >= 12 THEN 1 ELSE 0

CareerBoost(career_multiple) ==
    IF GE(career_multiple, Fx(5)) THEN 2
    ELSE IF GE(career_multiple, Fx(3)) THEN 1
    ELSE 0

\* the bug of leaving the cap out
Cap_none(p) == p

Cap(p) == Min(p, 10)

calculate_content_priority(e, angle) ==
    Cap(5 + RankBoost(Get(e.rank, 10))
          + AngleBoost(angle)
          + DataBoost(Get(e.completeness_score, 0))
          + CareerBoost(Get(e.vs_career_avg_multiple, 1)))

----------------------------------------------------------------------------
(* The dashboard's score, src/streamlit_app.py:2424-2446 *)

angle_scores(angle) ==
    CASE angle = "major_spike" -> 5
      [] angle \in {"significant_spike", "genre_leader", "international_phenomenon"} -> 4
      [] angle \in {"tour_standout", "top_performer"} -> 3
      [] angle \in {"international_appeal", "pricing_surge", "notable_performance"} -> 2
      [] OTHER -> 1

\* min(10, int(data_quality_score * 5 + angle_score)); the quality score is
\* v/3, and int() of the float sum is the angle score plus the floor of 5v/3
calculate_priority_score(item) ==
    Min(10, (5 * Get(item.data_quality_score, 0).v) \div 3 + angle_scores(item.content_angle))

\* what generate_single_content_piece (src/streamlit_app.py:1302-1313) puts
\* into the item that the score reads
DashboardItem(e, angle) ==
    [content_angle |-> angle, data_quality_score |-> e.completeness_score]

----------------------------------------------------------------------------
(* The classifier applied to one enriched event.  The events are drawn from
   values on, just below and just above every threshold, with the shapes both
   extraction loops produce: a context dict may lack a key (the pipeline's {}
   for an absent side row) and a float may be nan (a NULL of a numeric column). *)

CareerValues == {Missing, NaN, Num(Fx(1)), Num(Fx(2)), Num(Fx(3)), Num(Fx(5)), Num(Fx(6))}
IntlValues == {NaN, Num(Fx(25)), Num(Fx(26)), Num(Fx(40)), Num(Fx(50))}
GenreRankValues == {Missing, Num(0), Num(2), Num(3), Num(10), Num(11), Num(999)}
PriceValues == {Missing, NaN, Num(Fx(15)), Num(Fx(30)), Num(Fx(35))}
TourValues ==
    {<<Missing, NoStr>>} \cup ({Num(150), Num(Fx(2))} \X {Str(""), Str("X")})
RankValues == {Num(3), Num(5), Num(6), Num(9), Num(11)}
ScoreValues == {Num(n) : n \in 0..3}

Event(career, intl, genre, price, tour, rank, score) ==
    [vs_career_avg_multiple |-> career, international_pct |-> intl,
     ytd_genre_rank |-> genre, price_appreciation_pct |-> price,
     vs_tour_avg_multiple |-> tour[1], tour_name |-> tour[2],
     rank |-> rank, completeness_score |-> score]

NoEvent == Event(Missing, Missing, Missing, Missing, <<Missing, NoStr>>, Missing, Missing)

ClassifierEvents ==
    {Event(c, i, g, p, t, r, Num(3)) :
        c \in CareerValues, i \in IntlValues, g \in GenreRankValues,
        p \in PriceValues, t \in TourValues, r \in RankValues}

MaxContentPerEvent == 2

NoSelection == [max |-> 0, angles |-> <<>>]
IdleC ==
    /\ event = NoEvent /\ angles = <<>> /\ top3 = <<>> /\ pcC = "idle"
    /\ selected = NoSelection
IdleP ==
    /\ pevent = NoEvent /\ pangle = "" /\ priority = 0 /\ priority_score = 0
    /\ pcP = "idle"
IdleB ==
    /\ events = <<>> /\ max_content = 0 /\ idx = 0 /\ all_content = <<>>
    /\ processed_count = 0 /\ error_count = 0 /\ calls = <<>> /\ pcB = "idle"
    /\ batch_no = 0
    /\ exported = [op |-> "none"]
IdleG == api_outcome = [ok |-> TRUE] /\ post = [error |-> FALSE] /\ pcG = "idle"
NoFrames == [base |-> <<>>, hist |-> <<>>, trend |-> <<>>, market |-> <<>>]
IdleR == warehouse = NoFrames /\ pending = <<>> /\ reported = {} /\ pcR = "idle"

\* initialize_session_state, src/streamlit_app.py:91-117; "" stands for None
InitialSession ==
    [data_loaded |-> FALSE, snowflake_data |-> NoFrames, structured_events |-> <<>>,
     current_step |-> "load_data", last_error |-> ""]
EmptyCache == [valid |-> FALSE]
NoConnections == [app |-> "none", pipeline |-> "none"]
NoLoad == [clicked |-> FALSE, should_load |-> FALSE, replayed |-> FALSE, up |-> FALSE,
           failed |-> {}]
IdleD ==
    /\ up = FALSE /\ cache = EmptyCache /\ session_state = InitialSession
    /\ connections = NoConnections /\ last_load = NoLoad
IdleE ==
    /\ dataframes = NoFrames
    /\ enricher = "none" /\ row = 0 /\ structured_events = <<>> /\ pcE = "idle"
    /\ joined = [done |-> FALSE] /\ clock = 0 /\ again = [done |-> FALSE]

InitClassify ==
    /\ event \in ClassifierEvents
    /\ angles = <<>> /\ top3 = <<>> /\ pcC = "start"
    /\ selected = NoSelection
    /\ IdleP /\ IdleB /\ IdleE /\ IdleG /\ IdleR /\ IdleD

IdentifyBatch ==
    /\ pcC = "start"
    /\ angles' = BP_identify_content_angles(event)
    /\ pcC' = "batch"
    /\ UNCHANGED <<event, top3, selected, exceptC>>

IdentifyPipeline ==
    /\ pcC = "batch"
    /\ top3' = SCP_identify_content_angles(event)
    /\ pcC' = "done"
    /\ UNCHANGED <<event, angles, selected, exceptC>>

\* the selection _process_single_event makes for an event, for a
\* max_content_per_event below, at and above the number of labels
SelectAngles ==
    /\ pcC = "done"
    /\ \E max \in (1..MaxContentPerEvent) \cup {5, 6} :
          selected' = [max |-> max, angles |-> SelectedAngles(event, max)]
    /\ pcC' = "selected"
    /\ UNCHANGED <<event, angles, top3, exceptC>>

NextClassify == IdentifyBatch \/ IdentifyPipeline \/ SelectAngles

SpecClassify == InitClassify /\ [][NextClassify]_vars

----------------------------------------------------------------------------
(* The priority scorer applied to one event and one angle. *)

MaxRank == 12

AllAngles ==
    {"major_spike", "significant_spike", "notable_performance",
     "international_phenomenon", "international_appeal",
     "genre_leader", "top_performer", "pricing_surge", "demand_indicator",
     "tour_standout", "top_performance", "trending_event"}

PriorityEvents ==
    {Event(c, Num(0), Missing, Missing, <<Missing, NoStr>>, Num(r), s) :
        c \in CareerValues, r \in 1..MaxRank, s \in ScoreValues}

InitPriority ==
    /\ pevent \in PriorityEvents
    /\ pangle \in AllAngles
    /\ priority = 0 /\ priority_score = 0 /\ pcP = "start"
    /\ IdleC /\ IdleB /\ IdleE /\ IdleG /\ IdleR /\ IdleD

CalculatePriority ==
    /\ pcP = "start"
    /\ priority' = calculate_content_priority(pevent, pangle)
    /\ pcP' = "done"
    /\ UNCHANGED <<pevent, pangle, priority_score, exceptP>>

\* the dashboard scores the item generated for the same event and angle, as
\* its CSV, text and JSON exports do for every item
CalculatePriorityScore ==
    /\ pcP = "done"
    /\ priority_score' = calculate_priority_score(DashboardItem(pevent, pangle))
    /\ pcP' = "scored"
    /\ UNCHANGED <<pevent, pangle, priority, exceptP>>

NextPriority == CalculatePriority \/ CalculatePriorityScore

SpecPriority == InitPriority /\ [][NextPriority]_vars

----------------------------------------------------------------------------
(* Text generation, src/ai_contextualizer.py:130-240.  The API either answers
   or raises.  The text of an exception is modelled by the set of the phrases
   the handler looks for that its lowercased text contains.  An answer is the
   sequence of the lines of its text, each line stripped: a line is
   [kind, len, text], kind saying which section headers it contains.  A text
   value is [mark, body]: body is the sequence of its pieces (line texts and
   the blanks put between them), mark says that it starts with the cross mark
   the error branch puts in front of its message. *)

Line(kind, len, text) == [kind |-> kind, len |-> len, text |-> text]
AnswerWith(lines) == [ok |-> TRUE, msg |-> {}, content |-> lines]
Answer == AnswerWith(<<Line("plain", 20, "L1"), Line("plain", 100, "L2")>>)
Failure(msg) == [ok |-> FALSE, msg |-> msg, content |-> <<>>]

\* the rules with the timeout test moved in front of the connection test
UserMessage_reordered(error_msg) ==
    IF "rate_limit" \in error_msg
    THEN "Rate limit exceeded. Please wait a moment and try again."
    ELSE IF "invalid_api_key" \in error_msg \/ "unauthorized" \in error_msg
    THEN "Invalid API key. Please check your OpenAI API key in Snowflake secrets."
    ELSE IF "model" \in error_msg /\ "does not exist" \in error_msg
    THEN "Model not available. Check your OpenAI plan or use a different model."
    ELSE IF "timeout" \in error_msg
    THEN "Request timeout. This may indicate network restrictions."
    ELSE IF "connection" \in error_msg \/ "network" \in error_msg
    THEN "Network connection error. Snowflake may be blocking external API calls."
    ELSE IF "billing" \in error_msg \/ "quota" \in error_msg
    THEN "Billing or quota issue. Check your OpenAI account status."
    ELSE "OpenAI API error"

UserMessage(error_msg) ==
    IF "rate_limit" \in error_msg
    THEN "Rate limit exceeded. Please wait a moment and try again."
    ELSE IF "invalid_api_key" \in error_msg \/ "unauthorized" \in error_msg
    THEN "Invalid API key. Please check your OpenAI API key in Snowflake secrets."
    ELSE IF "model" \in error_msg /\ "does not exist" \in error_msg
    THEN "Model not available. Check your OpenAI plan or use a different model."
    ELSE IF "connection" \in error_msg \/ "network" \in error_msg
    THEN "Network connection error. Snowflake may be blocking external API calls."
    ELSE IF "timeout" \in error_msg
    THEN "Request timeout. This may indicate network restrictions."
    ELSE IF "billing" \in error_msg \/ "quota" \in error_msg
    THEN "Billing or quota issue. Check your OpenAI account status."
    ELSE "OpenAI API error"

\* _parse_dual_content, src/ai_contextualizer.py:203-240
\* the mistake of looking for the header in the line as written, not in
\* line.lower(): "Visual Text:" is not found
HasVisualHeader_cased(line) == FALSE

HasVisualHeader(line) == line.kind \in {"visual", "both"}
HasCaptionHeader(line) == line.kind \in {"caption", "both"}

\* the mistake of taking a line of exactly 100 characters for a short one
IsShort_inclusive(line) == line.len <= 100

\* len(line) < 100
IsShort(line) == line.len < 100

RECURSIVE StripPieces(_)
\* text.strip(): the blanks at the end go (there are none in front)
StripPieces(pieces) ==
    IF pieces # <<>> /\ pieces[Len(pieces)] = " "
    THEN StripPieces(SubSeq(pieces, 1, Len(pieces) - 1))
    ELSE pieces

RECURSIVE ParseFrom(_, _, _, _, _)
\* the for loop of _parse_dual_content from line i on
ParseFrom(lines, i, visual_text, caption, current_section) ==
    IF i > Len(lines)
    THEN [visual_text |-> StripPieces(visual_text), caption |-> StripPieces(caption)]
    ELSE IF lines[i].kind = "blank"
    THEN ParseFrom(lines, i + 1, visual_text, caption, current_section)
    ELSE IF HasVisualHeader(lines[i])
    THEN ParseFrom(lines, i + 1, visual_text, caption, "visual")
    ELSE IF HasCaptionHeader(lines[i])
    THEN ParseFrom(lines, i + 1, visual_text, caption, "caption")
    ELSE IF current_section = "visual"
    THEN ParseFrom(lines, i + 1, visual_text \o <<lines[i].text, " ">>, caption,
                   current_section)
    ELSE IF current_section = "caption"
    THEN ParseFrom(lines, i + 1, visual_text, caption \o <<lines[i].text, " ">>,
                   current_section)
    ELSE IF visual_text = <<>> /\ IsShort(lines[i])
    THEN ParseFrom(lines, i + 1, <<lines[i].text>>, caption, current_section)
    ELSE ParseFrom(lines, i + 1, visual_text, caption \o <<lines[i].text, " ">>,
                   current_section)

parse_dual_content(content, platform) ==
    [visual_text |-> [mark |-> FALSE, body |-> ParseFrom(content, 1, <<>>, <<>>, "none").visual_text],
     caption |-> [mark |-> FALSE, body |-> ParseFrom(content, 1, <<>>, <<>>, "none").caption],
     platform |-> platform, error |-> FALSE]

create_social_post(outcome, platform) ==
    IF outcome.ok
    THEN parse_dual_content(outcome.content, platform)
    ELSE [visual_text |-> [mark |-> TRUE, body |-> <<UserMessage(outcome.msg)>>],
          caption |-> [mark |-> TRUE, body |-> <<UserMessage(outcome.msg)>>],
          platform |-> platform, error |-> TRUE]

\* one call of create_social_post on its own
MaxLines == 3

ErrorPhrases ==
    {"rate_limit", "invalid_api_key", "unauthorized", "model", "does not exist",
     "connection", "network", "timeout", "billing", "quota"}

LineShapes ==
    {<<"blank", 0>>, <<"plain", 20>>, <<"plain", 99>>, <<"plain", 100>>,
     <<"visual", 20>>, <<"caption", 20>>, <<"both", 20>>}

LineText(i) ==
    CASE i = 1 -> "L1" [] i = 2 -> "L2" [] i = 3 -> "L3" [] i = 4 -> "L4" [] OTHER -> "L5"

\* content.strip().split('\n'): no blank line in front or at the end, unless
\* the whole text is empty
Responses ==
    {[i \in 1..Len(shapes) |->
        Line(shapes[i][1], shapes[i][2], IF shapes[i][1] = "blank" THEN "" ELSE LineText(i))] :
     shapes \in {sh \in UNION {[1..n -> LineShapes] : n \in 1..MaxLines} :
                     Len(sh) = 1 \/ (sh[1][1] # "blank" /\ sh[Len(sh)][1] # "blank")}}

InitGenerate ==
    /\ api_outcome \in {AnswerWith(lines) : lines \in Responses}
                       \cup {Failure(msg) : msg \in SUBSET ErrorPhrases}
    /\ post = [error |-> FALSE] /\ pcG = "start"
    /\ IdleC /\ IdleP /\ IdleB /\ IdleE /\ IdleR /\ IdleD

CreateSocialPost ==
    /\ pcG = "start"
    /\ \E platform \in {"instagram", "tiktok"} :
          post' = create_social_post(api_outcome, platform)
    /\ pcG' = "done"
    /\ UNCHANGED <<api_outcome, exceptG>>

NextGenerate == CreateSocialPost

SpecGenerate == InitGenerate /\ [][NextGenerate]_vars

----------------------------------------------------------------------------
(* Batch processor, src/batch_processor.py:28-126 *)

\* an ordered comparison with None raises TypeError
IsNone(x) == x.k = "none"

\* _identify_content_angles raises: every category compares its value, the
\* fallback compares rank only when nothing matched
AnglesRaise(e) ==
    \/ IsNone(Get(e.vs_career_avg_multiple, 0))
    \/ IsNone(Get(e.international_pct, 0))
    \/ IsNone(Get(e.ytd_genre_rank, 999))
    \/ IsNone(Get(e.price_appreciation_pct, 0))
    \/ IsNone(Get(e.vs_tour_avg_multiple, 0))
    \/ (MatchedAngles(e) = <<>> /\ IsNone(Get(e.rank, 10)))

\* _calculate_content_priority raises
PriorityRaises(e) ==
    \/ IsNone(Get(e.rank, 10))
    \/ IsNone(Get(e.completeness_score, 0))
    \/ IsNone(Get(e.vs_career_avg_multiple, 1))

\* the content_item dict of lines 92-117; the 'error' key of content_result is
\* not copied, and there is neither a 'content' key nor
\* event_metrics['recent_7d_gms']
ContentItem(e, angle, content_result) ==
    [event_id |-> e.event_id,
     artist_name |-> e.classified_artist_name,
     event_name |-> e.event_name,
     venue_location |-> <<e.venue_city, ", ", e.venue_country>>,
     genre |-> e.genre,
     rank |-> e.rank,
     content_angle |-> angle,
     platform |-> content_result.platform,
     visual_text |-> content_result.visual_text,
     caption |-> content_result.caption,
     data_quality_score |-> Get(e.completeness_score, 0),
     event_metrics |-> [rank |-> e.rank,
                        international_pct |-> Get(e.international_pct, 0),
                        vs_career_avg_multiple |-> Get(e.vs_career_avg_multiple, 1),
                        genre_rank |-> IF e.ytd_genre_rank.k = "missing" THEN None
                                       ELSE e.ytd_genre_rank,
                        performance_category |-> "Normal"],
     content_priority |-> calculate_content_priority(e, angle)]

RECURSIVE ItemsOf(_, _, _, _)
\* the for loop of _process_single_event from position i on: an exception
\* while the item is built is caught and the loop continues
ItemsOf(e, selected_angles, outcomes, i) ==
    IF i > Len(selected_angles) THEN <<>>
    ELSE (IF PriorityRaises(e) THEN <<>>
          ELSE <<ContentItem(e, selected_angles[i],
                             create_social_post(outcomes[i], "tiktok"))>>)
         \o ItemsOf(e, selected_angles, outcomes, i + 1)

process_single_event(e, max, outcomes) == ItemsOf(e, SelectedAngles(e, max), outcomes, 1)

CallsOf(e, max, outcomes) ==
    [i \in 1..Len(SelectedAngles(e, max)) |->
        [event_id |-> e.event_id, angle |-> SelectedAngles(e, max)[i],
         ok |-> outcomes[i].ok]]

----------------------------------------------------------------------------
(* The pipeline's generation loop, src/social_content_generator.py:320-364 *)

\* identify_content_angles raises: the tour multiple is compared only under a
\* truthy tour name, rank only when nothing matched
SCP_AnglesRaise(e) ==
    \/ IsNone(Get(e.vs_career_avg_multiple, 0))
    \/ IsNone(Get(e.international_pct, 0))
    \/ IsNone(Get(e.ytd_genre_rank, 999))
    \/ IsNone(Get(e.price_appreciation_pct, 0))
    \/ (Truthy(e.tour_name) /\ IsNone(Get(e.vs_tour_avg_multiple, 0)))
    \/ (SCP_identify_content_angles(e) = <<"trending_event">> /\ IsNone(Get(e.rank, 10)))

\* the content_item dict of lines 340-354: the post is asked for 'twitter'
\* and the item says 'tiktok'; there is no priority in it
PipelineItem(e, angle, content) ==
    [event_id |-> e.event_id,
     artist_name |-> e.classified_artist_name,
     event_name |-> e.event_name,
     content_angle |-> angle,
     platform |-> "tiktok",
     visual_text |-> content.visual_text,
     caption |-> content.caption,
     event_data |-> e,
     data_quality_score |-> e.completeness_score]

RECURSIVE GeneratedFor(_, _, _, _)
\* the inner for loop from position i on; a missing completeness score is a
\* KeyError the except swallows
GeneratedFor(e, event_angles, outcomes, i) ==
    IF i > Len(event_angles) THEN <<>>
    ELSE (IF e.completeness_score.k = "missing" THEN <<>>
          ELSE <<PipelineItem(e, event_angles[i],
                              create_social_post(outcomes[i], "twitter"))>>)
         \o GeneratedFor(e, event_angles, outcomes, i + 1)

----------------------------------------------------------------------------
(* Exports, src/batch_processor.py:234-460 *)

RECURSIVE InsertByPriority_ascending(_, _)
\* the mistake of sorting without reverse=True: lowest priority first
InsertByPriority_ascending(sorted, x) ==
    IF sorted = <<>> THEN <<x>>
    ELSE IF Head(sorted).content_priority <= x.content_priority
         THEN <<Head(sorted)>> \o InsertByPriority_ascending(Tail(sorted), x)
         ELSE <<x>> \o sorted

RECURSIVE InsertByPriority(_, _)
\* where sorted(..., reverse=True) puts x: behind every item whose priority is
\* not lower (the sort is stable)
InsertByPriority(sorted, x) ==
    IF sorted = <<>> THEN <<x>>
    ELSE IF Head(sorted).content_priority >= x.content_priority
         THEN <<Head(sorted)>> \o InsertByPriority(Tail(sorted), x)
         ELSE <<x>> \o sorted

RECURSIVE SortByPriority(_)
SortByPriority(content) ==
    IF content = <<>> THEN <<>>
    ELSE InsertByPriority(SortByPriority(SubSeq(content, 1, Len(content) - 1)),
                          content[Len(content)])

\* genre.lower().replace(' ', '') and artist.replace(' ', '').replace('&', 'and')
\* on the names the model uses
GenreTag(genre) ==
    CASE genre = "Rock" -> "#rock"
      [] genre = "Hip Hop" -> "#hiphop"
      [] OTHER -> ""
ArtistTag(artist) ==
    CASE artist = "Dua Lipa" -> "#DuaLipa"
      [] artist = "Florence & The Machine" -> "#FlorenceandTheMachine"
      [] OTHER -> "#Unknown"
\* len(artist) <= 20 after the replacements
ArtistTagFits(artist) == artist # "Florence & The Machine"

AngleHashtags(angle) ==
    CASE angle = "major_spike" -> <<"#trending", "#breakingnews">>
      [] angle = "international_phenomenon" -> <<"#global", "#international">>
      [] angle = "genre_leader" -> <<"#leader", "#dominating">>
      [] angle = "pricing_surge" -> <<"#demand", "#hottickets">>
      [] angle = "tour_standout" -> <<"#tour", "#standout">>
      [] OTHER -> <<>>

generate_hashtags(item) ==
    Take(<<"#livemusic", "#concerts">>
         \o (IF item.genre # "" THEN <<GenreTag(item.genre)>> ELSE <<>>)
         \o AngleHashtags(item.content_angle)
         \o (IF ArtistTagFits(item.artist_name)
             THEN <<ArtistTag(item.artist_name)>> ELSE <<>>),
         8)

ZapierPost(item) ==
    [id |-> <<item.event_id, item.content_angle>>,
     artist_name |-> item.artist_name,
     event_name |-> item.event_name,
     venue_location |-> item.venue_location,
     visual_text |-> item.visual_text,
     caption |-> item.caption,
     content_angle |-> item.content_angle,
     priority_score |-> item.content_priority,
     platform |-> item.platform,
     hashtags |-> generate_hashtags(item),
     metrics |-> [rank |-> item.event_metrics.rank,
                  international_pct |-> item.event_metrics.international_pct,
                  career_multiple |-> item.event_metrics.vs_career_avg_multiple,
                  performance_category |-> item.event_metrics.performance_category]]

export_for_zapier(content, max_items) ==
    LET top_content == Take(SortByPriority(content), max_items)
    IN  [op |-> "zapier", raised |-> FALSE, limit |-> max_items,
         count |-> Len(top_content),
         items |-> [i \in DOMAIN top_content |-> ZapierPost(top_content[i])]]

KeepMinPriority(content, min_priority) ==
    SelectSeq(content, LAMBDA item : item.content_priority >= min_priority)

\* max_items = 0 stands for None; preferred_angles = {} for None
filter_content_by_criteria(content, min_priority, max_items, preferred_angles) ==
    LET by_priority == KeepMinPriority(content, min_priority)
        by_angle == IF preferred_angles # {}
                    THEN SelectSeq(by_priority,
                                   LAMBDA item : item.content_angle \in preferred_angles)
                    ELSE by_priority
        filtered == SortByPriority(by_angle)
    IN  [op |-> "filter", raised |-> FALSE,
         count |-> Len(content),
         items |-> IF max_items # 0 /\ Len(filtered) > max_items
                   THEN Take(filtered, max_items) ELSE filtered]

\* item['content'] (line 379) is read for every item and no item built by
\* _process_single_event has that key: KeyError on the first item
create_posting_schedule(content, posts_per_day) ==
    IF content = <<>>
    THEN [op |-> "schedule", raised |-> FALSE, count |-> 0, items |-> <<>>]
    ELSE [op |-> "schedule", raised |-> TRUE, count |-> 0, items |-> <<>>]

\* _generate_content_metadata reads item['event_metrics']['recent_7d_gms']
\* (line 296), a key _process_single_event never sets: KeyError unless the
\* list is empty, before any file is written
save_content_with_metadata(content) ==
    IF SortByPriority(content) = <<>>
    THEN [op |-> "save", raised |-> FALSE, count |-> 0, items |-> <<>>]
    ELSE [op |-> "save", raised |-> TRUE, count |-> 0, items |-> <<>>]

\* src/social_content_generator.py:366-403: the list goes into the file as it
\* was passed
save_generated_content(content) ==
    [op |-> "save_generated", raised |-> FALSE, count |-> Len(content), items |-> content]

----------------------------------------------------------------------------
(* The batch run: process_events_batch over a list of events, then exports;
   or the pipeline run: generate_content_for_events, then the JSON save. *)

MaxBatch == 2
MaxBatchCalls == 2

\* the mistake of leaving a counter as the last call left it
ResetCount_accumulate(count) == count

\* self.processed_count = 0, self.error_count = 0 (lines 42-43)
ResetCount(count) == 0

BEvent(id, artist, genre, e) ==
    [event_id |-> id, classified_artist_name |-> artist, genre |-> genre,
     event_name |-> "Show", venue_city |-> "City", venue_country |-> "Country"] @@ e

\* five angles, priority 10
EvStar ==
    BEvent("e1", "Dua Lipa", "Rock",
           Event(Num(Fx(6)), Num(Fx(50)), Num(2), Num(Fx(35)), <<Num(Fx(2)), Str("X")>>,
                 Num(1), Num(3)))
\* significant_spike and international_appeal, priority 8
EvMid ==
    BEvent("e2", "Florence & The Machine", "Hip Hop",
           Event(Num(Fx(3)), Num(Fx(26)), Num(999), Num(0), <<Num(Fx(1)), Str("")>>,
                 Num(4), Num(2)))
\* nothing matched, rank 11: trending_event, priority 5 (the pipeline's event
\* for a base row without side rows)
EvPlain ==
    BEvent("e3", "Unknown", "",
           Event(Missing, Num(0), Missing, Missing, <<Missing, NoStr>>, Num(11), Num(0)))
\* a career multiple of None: the classifier raises TypeError
EvNoneCareer ==
    BEvent("e4", "Dua Lipa", "Rock",
           Event(None, Num(0), Num(999), Num(0), <<Num(Fx(1)), Str("")>>, Num(2), Num(3)))
\* a rank of None under a matched angle: the scorer raises inside the inner try
EvNoneRank ==
    BEvent("e5", "Dua Lipa", "Rock",
           Event(Num(Fx(6)), Num(0), Num(999), Num(0), <<Num(Fx(1)), Str("")>>, None, Num(3)))

BatchEvents == {EvStar, EvMid, EvPlain, EvNoneCareer, EvNoneRank}

\* lists of distinct events (event_id is unique within a batch)
BatchLists ==
    UNION {{l \in [1..n -> BatchEvents] : \A i, j \in 1..n : l[i] = l[j] => i = j} :
           n \in 1..MaxBatch}

ApiOutcomes == {Answer, Failure({"rate_limit"}), Failure({})}

InitBatch ==
    /\ events \in BatchLists
    /\ max_content \in 1..MaxContentPerEvent
    /\ idx = 0 /\ all_content = <<>> /\ processed_count = 0 /\ error_count = 0
    /\ calls = <<>> /\ pcB \in {"loop", "generate"} /\ exported = [op |-> "none"]
    /\ batch_no = 1
    /\ IdleC /\ IdleP /\ IdleE /\ IdleG /\ IdleR /\ IdleD

\* one iteration of the for loop, the try branch: _process_single_event returns
ProcessEvent ==
    /\ pcB = "loop" /\ idx < Len(events)
    /\ ~AnglesRaise(events[idx + 1])
    /\ \E outcomes \in [1..Len(SelectedAngles(events[idx + 1], max_content)) -> ApiOutcomes] :
          /\ all_content' = all_content
                \o process_single_event(events[idx + 1], max_content, outcomes)
          /\ calls' = calls \o CallsOf(events[idx + 1], max_content, outcomes)
    /\ processed_count' = processed_count + 1
    /\ idx' = idx + 1
    /\ UNCHANGED <<events, max_content, error_count, pcB, exported, batch_no, exceptB>>

\* one iteration of the for loop, the except branch
ProcessEventFails ==
    /\ pcB = "loop" /\ idx < Len(events)
    /\ AnglesRaise(events[idx + 1])
    /\ error_count' = error_count + 1
    /\ idx' = idx + 1
    /\ UNCHANGED <<events, max_content, all_content, processed_count, calls, pcB,
                   exported, batch_no, exceptB>>

\* the loop is over: _print_batch_summary, return all_content
ReturnBatch ==
    /\ pcB = "loop" /\ idx = Len(events)
    /\ pcB' = "returned"
    /\ UNCHANGED <<events, max_content, idx, all_content, processed_count, error_count,
                   calls, exported, batch_no, exceptB>>

\* process_events_batch is called again on the same BatchProcessor, lines
\* 40-45: both counters are set to 0 and a new list is begun
ProcessEventsBatch ==
    /\ pcB = "returned" /\ batch_no < MaxBatchCalls
    /\ events' \in BatchLists
    /\ max_content' \in 1..MaxContentPerEvent
    /\ processed_count' = ResetCount(processed_count)
    /\ error_count' = ResetCount(error_count)
    /\ idx' = 0 /\ all_content' = <<>> /\ calls' = <<>>
    /\ exported' = [op |-> "none"]
    /\ batch_no' = batch_no + 1
    /\ pcB' = "loop"
    /\ UNCHANGED exceptB

ExportForZapier ==
    /\ pcB = "returned"
    /\ \E max_items \in {1, 2, 20} : exported' = export_for_zapier(all_content, max_items)
    /\ UNCHANGED <<events, max_content, idx, all_content, processed_count, error_count,
                   calls, pcB, batch_no, exceptB>>

FilterContent ==
    /\ pcB = "returned"
    /\ \E min_priority \in {6, 8}, max_items \in {0, 2},
          preferred_angles \in {{}, {"major_spike", "significant_spike"}} :
          exported' = filter_content_by_criteria(all_content, min_priority, max_items,
                                                 preferred_angles)
    /\ UNCHANGED <<events, max_content, idx, all_content, processed_count, error_count,
                   calls, pcB, batch_no, exceptB>>

CreatePostingSchedule ==
    /\ pcB = "returned"
    /\ \E posts_per_day \in {1, 3} :
          exported' = create_posting_schedule(all_content, posts_per_day)
    /\ UNCHANGED <<events, max_content, idx, all_content, processed_count, error_count,
                   calls, pcB, batch_no, exceptB>>

SaveContentWithMetadata ==
    /\ pcB = "returned"
    /\ exported' = save_content_with_metadata(all_content)
    /\ UNCHANGED <<events, max_content, idx, all_content, processed_count, error_count,
                   calls, pcB, batch_no, exceptB>>

\* one iteration of the for loop of generate_content_for_events
GenerateForEvent ==
    /\ pcB = "generate" /\ idx < Len(events)
    /\ ~SCP_AnglesRaise(events[idx + 1])
    /\ \E outcomes \in [1..Len(SCP_identify_content_angles(events[idx + 1])) -> ApiOutcomes] :
          all_content' = all_content
              \o GeneratedFor(events[idx + 1],
                              SCP_identify_content_angles(events[idx + 1]), outcomes, 1)
    /\ idx' = idx + 1
    /\ UNCHANGED <<events, max_content, processed_count, error_count, calls, pcB,
                   exported, batch_no, exceptB>>

\* identify_content_angles is called outside the try: its exception ends
\* generate_content_for_events and the list is lost
GenerateRaises ==
    /\ pcB = "generate" /\ idx < Len(events)
    /\ SCP_AnglesRaise(events[idx + 1])
    /\ pcB' = "raised"
    /\ all_content' = <<>>
    /\ UNCHANGED <<events, max_content, idx, processed_count, error_count, calls,
                   exported, batch_no, exceptB>>

ReturnGenerated ==
    /\ pcB = "generate" /\ idx = Len(events)
    /\ pcB' = "generated"
    /\ UNCHANGED <<events, max_content, idx, all_content, processed_count, error_count,
                   calls, exported, batch_no, exceptB>>

SaveGeneratedContent ==
    /\ pcB = "generated"
    /\ exported' = save_generated_content(all_content)
    /\ UNCHANGED <<events, max_content, idx, all_content, processed_count, error_count,
                   calls, pcB, batch_no, exceptB>>

NextBatch ==
    \/ ProcessEvent \/ ProcessEventFails \/ ReturnBatch \/ ProcessEventsBatch
    \/ ExportForZapier \/ FilterContent \/ CreatePostingSchedule \/ SaveContentWithMetadata
    \/ GenerateForEvent \/ GenerateRaises \/ ReturnGenerated \/ SaveGeneratedContent

SpecBatch == InitBatch /\ [][NextBatch]_vars

----------------------------------------------------------------------------
(* Enrichment: src/social_content_generator.py:69-270 (the pipeline) and
   src/data_processing.py:181-331 (the DataProcessor).

   A query result is a sequence of rows; a row is a record with its EVENT_ID
   and one cell per column.  A cell is Missing (the result has no such
   column), None or NaN (the two forms of a null), Bad (a text that is no
   number), Num(n) or Str(s).  Fractions are kept in hundredths, so that
   times 100 gives the two-decimal fixed point of the classifier. *)

Bad == [k |-> "bad", v |-> 0]
Raise == [k |-> "raise", v |-> 0]
Raises(x) == x.k = "raise"

NoRow == [norow |-> TRUE]
IsNoRow(r) == "norow" \in DOMAIN r

\* the mistake of taking the last match: matching.iloc[-1]
RECURSIVE MatchingRow_last(_, _)
MatchingRow_last(df, event_id) ==
    IF df = <<>> THEN [norow |-> TRUE]
    ELSE IF df[Len(df)].EVENT_ID = event_id THEN df[Len(df)]
    ELSE MatchingRow_last(SubSeq(df, 1, Len(df) - 1), event_id)

\* df[df['EVENT_ID'] == event_id].iloc[0], or None
RECURSIVE MatchingRow(_, _)
MatchingRow(df, event_id) ==
    IF df = <<>> THEN NoRow
    ELSE IF Head(df).EVENT_ID = event_id THEN Head(df)
    ELSE MatchingRow(Tail(df), event_id)

\* the three joins of one loop iteration
Joins(df, i) ==
    [done |-> TRUE,
     event_id |-> df.base[i].EVENT_ID,
     hist |-> MatchingRow(df.hist, df.base[i].EVENT_ID),
     trend |-> MatchingRow(df.trend, df.base[i].EVENT_ID),
     market |-> MatchingRow(df.market, df.base[i].EVENT_ID)]

\* row[column]: KeyError when the column does not exist
Item(r, column) == IF r[column].k = "missing" THEN Raise ELSE r[column]
\* row.get(column, default)
RowGet(r, column, default) == IF r[column].k = "missing" THEN default ELSE r[column]

\* float(value), int(value), str(value)
PyFloat(x) ==
    CASE x.k = "num" -> x
      [] x.k = "nan" -> x
      [] OTHER -> Raise
PyInt(x) ==
    CASE x.k = "num" -> x
      [] OTHER -> Raise
PyStr(x) ==
    CASE x.k = "str" -> x
      [] x.k = "none" -> Str("None")
      [] x.k = "nan" -> Str("nan")
      [] x.k = "raise" -> Raise
      [] OTHER -> Str("?")

Times100(x) == IF x.k = "num" THEN Num(x.v * 100) ELSE x

\* SocialContentPipeline._safe_float / _safe_int
SCP_safe_float(value, default) ==
    IF Raises(value) THEN Raise
    ELSE IF value.k = "none" THEN Num(default)
    ELSE IF Raises(PyFloat(value)) THEN Num(default)
    ELSE PyFloat(value)
SCP_safe_int(value, default) ==
    IF Raises(value) THEN Raise
    ELSE IF value.k = "none" THEN Num(default)
    ELSE IF Raises(PyInt(value)) THEN Num(default)
    ELSE PyInt(value)

\* the mistake of counting a row only when its leading field is usable
Completeness_fields(hist_row, trend_row, market_row) ==
    Num((IF IsNoRow(hist_row) \/ hist_row.VS_CAREER_AVG_MULTIPLE.k # "num" THEN 0 ELSE 1)
        + (IF IsNoRow(trend_row) THEN 0 ELSE 1)
        + (IF IsNoRow(market_row) \/ market_row.YTD_GENRE_RANK.k # "num" THEN 0 ELSE 1))

\* completeness_score, in thirds
Completeness(hist_row, trend_row, market_row) ==
    Num((IF IsNoRow(hist_row) THEN 0 ELSE 1) + (IF IsNoRow(trend_row) THEN 0 ELSE 1)
        + (IF IsNoRow(market_row) THEN 0 ELSE 1))

\* the mistake of numbering the events by the loop's position
RankOf_position(base_row) == Num(row + 1)

\* int(base_row['RECENT_GMS_RANK'])
RankOf(base_row) == PyInt(Item(base_row, "RECENT_GMS_RANK"))

CountryColumn(i) ==
    CASE i = 1 -> "TOP_BUYER_COUNTRY_1" [] i = 2 -> "TOP_BUYER_COUNTRY_2"
      [] i = 3 -> "TOP_BUYER_COUNTRY_3" [] OTHER -> "TOP_BUYER_COUNTRY_4"
PctColumn(i) ==
    CASE i = 1 -> "TOP_BUYER_COUNTRY_1_PCT" [] i = 2 -> "TOP_BUYER_COUNTRY_2_PCT"
      [] i = 3 -> "TOP_BUYER_COUNTRY_3_PCT" [] OTHER -> "TOP_BUYER_COUNTRY_4_PCT"

RECURSIVE SCP_top_countries(_, _)
\* the loop of _extract_geographic_insights from slot i on
SCP_top_countries(trend_row, i) ==
    IF i > 3 THEN <<>>
    ELSE (IF Truthy(RowGet(trend_row, CountryColumn(i), None))
             /\ RowGet(trend_row, PctColumn(i), None).k # "none"
          THEN <<[country |-> PyStr(RowGet(trend_row, CountryColumn(i), None)),
                  percentage |-> Times100(SCP_safe_float(RowGet(trend_row, PctColumn(i), None), 0))]>>
          ELSE <<>>)
         \o SCP_top_countries(trend_row, i + 1)

\* str(value).strip() == '' on the texts the model uses
StripsToEmpty(x) == x.k = "str" /\ x.s \in {"", "  "}

\* classified_artist_name of structure_event_data (lines 97-98): the category
\* name stands in only when the row has no classified-name column
SCP_artist_name(base_row) ==
    PyStr(RowGet(base_row, "CLASSIFIED_ARTIST_NAME",
                 RowGet(base_row, "EVENT_CATEGORY_NAME", Str("Unknown"))))

\* _build_event_object.get_artist_name
get_artist_name(base_row) ==
    LET classified == RowGet(base_row, "CLASSIFIED_ARTIST_NAME", None)
        category == RowGet(base_row, "EVENT_CATEGORY_NAME", Str("Unknown"))
    IN  IF classified.k = "none" \/ classified = Str("None")
           \/ StripsToEmpty(PyStr(classified))
        THEN PyStr(category)
        ELSE PyStr(classified)

\* the fields of event_data the classifier, the scorer and the batch read; a
\* context that is {} leaves its fields Missing
SCP_event_data(base_row, hist_row, trend_row, market_row, now) ==
    [event_id |-> base_row.EVENT_ID,
     event_name |-> PyStr(Item(base_row, "EVENT_NAME")),
     artist_name |-> PyStr(RowGet(base_row, "EVENT_CATEGORY_NAME", Str("Unknown"))),
     classified_artist_name |-> SCP_artist_name(base_row),
     genre |-> PyStr(Item(base_row, "EVENT_PARENT_CATEGORY_NAME")),
     rank |-> RankOf(base_row),
     international_pct |->
        Times100(SCP_safe_float(Item(base_row, "INTERNATIONAL_GMS_PCT"), 0)),
     vs_career_avg_multiple |->
        IF IsNoRow(hist_row) THEN Missing
        ELSE SCP_safe_float(RowGet(hist_row, "VS_CAREER_AVG_MULTIPLE", None), 0),
     tour_name |->
        IF IsNoRow(hist_row) THEN NoStr
        ELSE IF Truthy(RowGet(hist_row, "TOUR_NAME", None))
             THEN PyStr(RowGet(hist_row, "TOUR_NAME", Str("")))
             ELSE None,
     vs_tour_avg_multiple |->
        IF IsNoRow(hist_row) THEN Missing
        ELSE SCP_safe_float(RowGet(hist_row, "VS_TOUR_AVG_MULTIPLE", None), 0),
     price_appreciation_pct |->
        IF IsNoRow(trend_row) THEN Missing
        ELSE Times100(SCP_safe_float(RowGet(trend_row, "PRICE_APPRECIATION_PCT", Num(0)), 0)),
     \* geographic_insights is {} without a trend row: no list to read
     top_buyer_countries |->
        IF IsNoRow(trend_row) THEN <<>> ELSE SCP_top_countries(trend_row, 1),
     ytd_genre_rank |->
        IF IsNoRow(market_row) THEN Missing
        ELSE SCP_safe_int(RowGet(market_row, "YTD_GENRE_RANK", None), 0),
     last_7d_market_share_pct |->
        IF IsNoRow(market_row) THEN Missing
        ELSE Times100(SCP_safe_float(RowGet(market_row, "LAST_7D_MARKET_SHARE_PCT", Num(0)), 0)),
     ytd_market_share_pct |->
        IF IsNoRow(market_row) THEN Missing
        ELSE Times100(SCP_safe_float(RowGet(market_row, "YTD_MARKET_SHARE_PCT", Num(0)), 0)),
     data_timestamp |-> now,
     has_historical_context |-> ~IsNoRow(hist_row),
     has_trend_analysis |-> ~IsNoRow(trend_row),
     has_market_positioning |-> ~IsNoRow(market_row),
     completeness_score |-> Completeness(hist_row, trend_row, market_row)]

\* _build_event_object.safe_get; convert_func is "float", "int" or "" (none)
safe_get(r, column, default, convert_func) ==
    IF IsNoRow(r) THEN default
    ELSE IF RowGet(r, column, default).k = "none" THEN default
    ELSE IF convert_func = "float"
         THEN (IF Raises(PyFloat(RowGet(r, column, default))) THEN default
               ELSE PyFloat(RowGet(r, column, default)))
    ELSE IF convert_func = "int"
         THEN (IF Raises(PyInt(RowGet(r, column, default))) THEN default
               ELSE PyInt(RowGet(r, column, default)))
    ELSE RowGet(r, column, default)

RECURSIVE DP_top_countries(_, _)
\* the list comprehension of _build_event_object from slot i on
DP_top_countries(trend_row, i) ==
    IF i > 3 THEN <<>>
    ELSE (IF Truthy(safe_get(trend_row, CountryColumn(i), None, ""))
          THEN <<[country |-> safe_get(trend_row, CountryColumn(i), Str(""), ""),
                  percentage |-> Times100(safe_get(trend_row, PctColumn(i), Num(0), "float"))]>>
          ELSE <<>>)
         \o DP_top_countries(trend_row, i + 1)

\* DataProcessor._build_event_object, the same fields
build_event_object(base_row, hist_row, trend_row, market_row) ==
    [event_id |-> base_row.EVENT_ID,
     event_name |-> PyStr(Item(base_row, "EVENT_NAME")),
     artist_name |-> PyStr(RowGet(base_row, "EVENT_CATEGORY_NAME", Str("Unknown"))),
     classified_artist_name |-> get_artist_name(base_row),
     genre |-> PyStr(Item(base_row, "EVENT_PARENT_CATEGORY_NAME")),
     rank |-> RankOf(base_row),
     international_pct |->
        Times100(safe_get(base_row, "INTERNATIONAL_GMS_PCT", Num(0), "float")),
     vs_career_avg_multiple |->
        safe_get(hist_row, "VS_CAREER_AVG_MULTIPLE", Num(Fx(1)), "float"),
     tour_name |-> safe_get(hist_row, "TOUR_NAME", Str(""), ""),
     vs_tour_avg_multiple |->
        safe_get(hist_row, "VS_TOUR_AVG_MULTIPLE", Num(Fx(1)), "float"),
     price_appreciation_pct |->
        Times100(safe_get(trend_row, "PRICE_APPRECIATION_PCT", Num(0), "float")),
     top_buyer_countries |-> DP_top_countries(trend_row, 1),
     ytd_genre_rank |-> safe_get(market_row, "YTD_GENRE_RANK", Num(999), "int"),
     last_7d_market_share_pct |->
        Times100(safe_get(market_row, "LAST_7D_MARKET_SHARE_PCT", Num(0), "float")),
     ytd_market_share_pct |-> Missing,
     has_historical_context |-> ~IsNoRow(hist_row),
     has_trend_analysis |-> ~IsNoRow(trend_row),
     has_market_positioning |-> ~IsNoRow(market_row),
     completeness_score |-> Completeness(hist_row, trend_row, market_row)]

\* building the dict raised (KeyError, TypeError or ValueError)
BuildRaises(e) ==
    \/ Raises(e.event_name) \/ Raises(e.genre) \/ Raises(e.rank)
    \/ Raises(e.international_pct)

Enrich(which, df, i, now) ==
    LET base_row == df.base[i]
        hist_row == Joins(df, i).hist
        trend_row == Joins(df, i).trend
        market_row == Joins(df, i).market
    IN  IF which = "pipeline"
        THEN SCP_event_data(base_row, hist_row, trend_row, market_row, now)
        ELSE build_event_object(base_row, hist_row, trend_row, market_row)

----------------------------------------------------------------------------
(* The query results the enrichment is run on *)

MaxRows == 2

BaseRow(name, genre, rank, intl) ==
    [EVENT_NAME |-> name, EVENT_PARENT_CATEGORY_NAME |-> genre,
     RECENT_GMS_RANK |-> rank, INTERNATIONAL_GMS_PCT |-> intl,
     CLASSIFIED_ARTIST_NAME |-> Str("Artist"), EVENT_CATEGORY_NAME |-> Str("Category")]
Named(r, classified, category) ==
    [r EXCEPT !.CLASSIFIED_ARTIST_NAME = classified, !.EVENT_CATEGORY_NAME = category]
HistRow(career, tour_name, tour_multiple) ==
    [VS_CAREER_AVG_MULTIPLE |-> career, TOUR_NAME |-> tour_name,
     VS_TOUR_AVG_MULTIPLE |-> tour_multiple]
\* buyers: four <<country, fraction>> pairs, the columns TOP_BUYER_COUNTRY_1..4
\* and TOP_BUYER_COUNTRY_1_PCT..4_PCT
TrendRowBuyers(price, buyers) ==
    [PRICE_APPRECIATION_PCT |-> price,
     TOP_BUYER_COUNTRY_1 |-> buyers[1][1], TOP_BUYER_COUNTRY_1_PCT |-> buyers[1][2],
     TOP_BUYER_COUNTRY_2 |-> buyers[2][1], TOP_BUYER_COUNTRY_2_PCT |-> buyers[2][2],
     TOP_BUYER_COUNTRY_3 |-> buyers[3][1], TOP_BUYER_COUNTRY_3_PCT |-> buyers[3][2],
     TOP_BUYER_COUNTRY_4 |-> buyers[4][1], TOP_BUYER_COUNTRY_4_PCT |-> buyers[4][2]]
US == <<Str("US"), Num(40)>>
UK == <<Str("UK"), Num(30)>>
DE == <<Str("DE"), Num(20)>>
FR == <<Str("FR"), Num(10)>>
TrendRow(price) == TrendRowBuyers(price, <<US, UK, DE, FR>>)
MarketRowShares(genre_rank, last_7d, ytd) ==
    [YTD_GENRE_RANK |-> genre_rank, LAST_7D_MARKET_SHARE_PCT |-> last_7d,
     YTD_MARKET_SHARE_PCT |-> ytd]
MarketRow(genre_rank) == MarketRowShares(genre_rank, Num(5), Num(3))

GoodBase == BaseRow(Str("Show"), Str("Rock"), Num(2), Num(30))
LowBase == BaseRow(Str("Show"), Str("Rock"), Num(11), NaN)

\* what the four results hold for one event id: <<base, hist, trend, market>>
RowCases ==
    { <<GoodBase, HistRow(Num(Fx(6)), Str("X"), Num(Fx(2))), TrendRow(Num(35)), MarketRow(Num(2))>>,
      <<Named(LowBase, None, Str("Category")), NoRow, NoRow, NoRow>>,
      <<BaseRow(Str("Show"), Str("Rock"), NaN, Num(30)),
        HistRow(Num(Fx(6)), Str("X"), Num(Fx(2))), TrendRow(Num(35)), MarketRow(Num(2))>>,
      <<BaseRow(Str("Show"), Str("Rock"), None, Num(30)), NoRow, NoRow, NoRow>>,
      <<BaseRow(None, Str("Rock"), Num(2), Num(30)), NoRow, NoRow, NoRow>>,
      <<Named(GoodBase, NaN, Str("Category")), HistRow(None, None, None), NoRow,
        MarketRow(Num(20))>>,
      <<Named(LowBase, Str(""), Str("Category")), HistRow(NaN, NaN, NaN), NoRow,
        MarketRow(None)>>,
      <<Named(LowBase, Str("  "), None), HistRow(Bad, Str(""), Bad),
        TrendRowBuyers(Num(35), <<US, <<Str("UK"), None>>, DE, FR>>),
        MarketRowShares(NaN, None, NaN)>>,
      <<Named(LowBase, Str("None"), Str("Category")), NoRow,
        TrendRowBuyers(None, <<<<None, Num(40)>>, UK, <<Str(""), Num(20)>>, FR>>),
        MarketRow(Bad)>>,
      <<Named(LowBase, Str("nan"), NaN), HistRow(Num(Fx(1)), None, Num(Fx(2))),
        TrendRowBuyers(Num(150), <<US, <<NaN, Num(30)>>, <<Str("DE"), NaN>>, FR>>), NoRow>> }

\* the columns one of which a result may lack
Droppable ==
    {"EVENT_NAME", "RECENT_GMS_RANK", "VS_CAREER_AVG_MULTIPLE", "YTD_GENRE_RANK",
     "LAST_7D_MARKET_SHARE_PCT", "CLASSIFIED_ARTIST_NAME", "EVENT_CATEGORY_NAME",
     "TOP_BUYER_COUNTRY_3_PCT"}
DropSets ==
    {{}} \cup {{c} : c \in Droppable}
         \cup {{"CLASSIFIED_ARTIST_NAME", "EVENT_CATEGORY_NAME"}}

Drop(r, dropped) ==
    IF IsNoRow(r) THEN r
    ELSE [c \in DOMAIN r |-> IF c \in dropped THEN Missing ELSE r[c]]

WithId(r, event_id) == [EVENT_ID |-> Num(event_id)] @@ r

\* the rows present, in the order given by ids
RECURSIVE Rows(_, _, _, _)
Rows(cases, ids, table, dropped) ==
    IF ids = <<>> THEN <<>>
    ELSE (IF IsNoRow(cases[Head(ids)][table]) THEN <<>>
          ELSE <<WithId(Drop(cases[Head(ids)][table], dropped), Head(ids))>>)
         \o Rows(cases, Tail(ids), table, dropped)

Ascending(n) == [i \in 1..n |-> i]
Descending(n) == [i \in 1..n |-> n + 1 - i]

\* rows the side results may hold besides the ones of RowCases: a second row
\* for event id 1 ("dup", behind the first one) or a row of an event that is
\* not in the base result ("foreign", in front of all others)
ExtraRows == {"none", "dup", "foreign"}
OtherRow == <<NoRow, HistRow(Num(Fx(1)), Str(""), Num(Fx(1))), TrendRow(Num(0)), MarketRow(Num(50))>>

SideRows(cases, table, dropped, extra) ==
    (IF extra = "foreign" THEN <<WithId(Drop(OtherRow[table], dropped), 99)>> ELSE <<>>)
    \o Rows(cases, Descending(Len(cases)), table, dropped)
    \o (IF extra = "dup" THEN <<WithId(Drop(OtherRow[table], dropped), 1)>> ELSE <<>>)

\* base rows in id order, the other results in the opposite order
Frames(cases, dropped, extra) ==
    [base |-> Rows(cases, Ascending(Len(cases)), 1, dropped),
     hist |-> SideRows(cases, 2, dropped, extra),
     trend |-> SideRows(cases, 3, dropped, extra),
     market |-> SideRows(cases, 4, dropped, extra)]

AllFrames ==
    {Frames(cases, dropped, extra) :
        cases \in UNION {[1..n -> RowCases] : n \in 0..MaxRows},
        dropped \in DropSets,
        extra \in ExtraRows}

InitEnrich ==
    /\ dataframes \in AllFrames
    /\ enricher = "none" /\ row = 0 /\ structured_events = <<>> /\ pcE = "start"
    /\ joined = [done |-> FALSE] /\ clock = 0 /\ again = [done |-> FALSE]
    /\ IdleC /\ IdleP /\ IdleB /\ IdleG /\ IdleR /\ IdleD

\* structure_event_data up to the loop: an empty base result returns []
StructureEventData ==
    /\ pcE = "start"
    /\ enricher' = "pipeline"
    /\ pcE' = IF dataframes.base = <<>> THEN "returned" ELSE "loop"
    /\ UNCHANGED <<dataframes, row, structured_events, joined, clock, again, exceptE>>

\* one iteration of the for loop of structure_event_data
StructureRow ==
    /\ pcE = "loop" /\ row < Len(dataframes.base)
    /\ ~BuildRaises(Enrich("pipeline", dataframes, row + 1, clock))
    /\ structured_events' = Append(structured_events, Enrich("pipeline", dataframes, row + 1, clock))
    /\ joined' = Joins(dataframes, row + 1)
    /\ row' = row + 1
    /\ UNCHANGED <<dataframes, enricher, pcE, clock, again, exceptE>>

\* the iteration raises: nothing catches it, the call ends without a result
StructureRowRaises ==
    /\ pcE = "loop" /\ row < Len(dataframes.base)
    /\ BuildRaises(Enrich("pipeline", dataframes, row + 1, clock))
    /\ joined' = Joins(dataframes, row + 1)
    /\ structured_events' = <<>>
    /\ pcE' = "raised"
    /\ UNCHANGED <<dataframes, enricher, row, clock, again, exceptE>>

StructureReturn ==
    /\ pcE = "loop" /\ row = Len(dataframes.base)
    /\ pcE' = "returned"
    /\ UNCHANGED <<dataframes, enricher, row, structured_events, joined, clock, again, exceptE>>

\* process_event_data: "not raw_data.get('base_events')" (line 183) asks a
\* DataFrame for its truth value, which raises ValueError whatever it holds
ProcessEventData ==
    /\ pcE = "start"
    /\ enricher' = "processor"
    /\ pcE' = "raised"
    /\ UNCHANGED <<dataframes, row, structured_events, joined, clock, again, exceptE>>

\* _build_event_object called on one base row and its matching rows
BuildEventObject ==
    /\ pcE = "start"
    /\ \E i \in DOMAIN dataframes.base :
          /\ row' = i
          /\ joined' = Joins(dataframes, i)
          /\ IF BuildRaises(Enrich("processor", dataframes, i, clock))
             THEN structured_events' = <<>> /\ pcE' = "raised"
             ELSE /\ structured_events' = <<Enrich("processor", dataframes, i, clock)>>
                  /\ pcE' = "built"
    /\ enricher' = "processor"
    /\ UNCHANGED <<dataframes, clock, again, exceptE>>

\* the base row structured_events[i] was built from
BaseIndex(i) == IF enricher = "pipeline" THEN i ELSE row

\* the same extraction run once more on the rows of an event already built,
\* at the same time or later
ExtractAgain ==
    /\ pcE \in {"returned", "built"}
    /\ ~again.done
    /\ \E i \in DOMAIN structured_events, now \in {clock, clock + 1} :
          /\ clock' = now
          /\ again' = [done |-> TRUE, of |-> i,
                       event |-> Enrich(enricher, dataframes, BaseIndex(i), now)]
    /\ UNCHANGED <<dataframes, enricher, row, structured_events, joined, pcE, exceptE>>

NextEnrich ==
    \/ StructureEventData \/ StructureRow \/ StructureRowRaises \/ StructureReturn
    \/ ProcessEventData \/ BuildEventObject \/ ExtractAgain

SpecEnrich == InitEnrich /\ [][NextEnrich]_vars

----------------------------------------------------------------------------
(* The pipeline run, src/social_content_generator.py:34-67 and 482-515:
   query_top_events_views, structure_event_data, generate_content_for_events,
   save_generated_content.  A query either returns the rows its view holds or
   raises; the structuring and generation steps are the actions above. *)

Views == <<"base", "hist", "trend", "market">>

\* an event with all side rows, one without any, and one whose rank is NULL
RunCases ==
    { <<GoodBase, HistRow(Num(Fx(6)), Str("X"), Num(Fx(2))), TrendRow(Num(35)), MarketRow(Num(2))>>,
      <<LowBase, NoRow, NoRow, NoRow>>,
      <<BaseRow(Str("Show"), Str("Rock"), None, Num(30)), NoRow, NoRow, NoRow>> }

RunFrames ==
    {Frames(cases, {}, "none") : cases \in UNION {[1..n -> RunCases] : n \in 0..MaxRows}}

InitRun ==
    /\ warehouse \in RunFrames
    /\ pending = Views /\ reported = {} /\ pcR = "query"
    /\ dataframes = NoFrames
    /\ enricher = "none" /\ row = 0 /\ structured_events = <<>> /\ pcE = "idle"
    /\ joined = [done |-> FALSE] /\ clock = 0 /\ again = [done |-> FALSE]
    /\ IdleC /\ IdleP /\ IdleB /\ IdleG /\ IdleD

\* one iteration of the for loop of query_top_events_views, the try branch
QueryView ==
    /\ pcR = "query" /\ pending # <<>>
    /\ dataframes' = [dataframes EXCEPT ![Head(pending)] = warehouse[Head(pending)]]
    /\ pending' = Tail(pending)
    /\ UNCHANGED <<warehouse, reported, pcR, enricher, row, structured_events, joined,
                   clock, again, pcE, varsB, exceptR>>

\* the except branch: the failure is printed and an empty DataFrame stands in
\* for the result
QueryViewFails ==
    /\ pcR = "query" /\ pending # <<>>
    /\ dataframes' = [dataframes EXCEPT ![Head(pending)] = <<>>]
    /\ reported' = reported \cup {Head(pending)}
    /\ pending' = Tail(pending)
    /\ UNCHANGED <<warehouse, pcR, enricher, row, structured_events, joined,
                   clock, again, pcE, varsB, exceptR>>

\* run_pipeline, lines 489-492: the dict of results goes to structure_event_data
RunStructure ==
    /\ pcR = "query" /\ pending = <<>>
    /\ pcR' = "structure" /\ pcE' = "start"
    /\ UNCHANGED <<warehouse, pending, reported, dataframes, enricher, row,
                   structured_events, joined, clock, again, varsB, exceptR>>

\* lines 494-496: no events, return None
RunNoEvents ==
    /\ pcR = "structure" /\ pcE = "returned" /\ structured_events = <<>>
    /\ pcR' = "no_events"
    /\ UNCHANGED <<warehouse, pending, reported, varsE, varsB, exceptR>>

\* line 499: the events go to generate_content_for_events
RunGenerate ==
    /\ pcR = "structure" /\ pcE = "returned" /\ structured_events # <<>>
    /\ pcR' = "generate"
    /\ events' = structured_events /\ idx' = 0 /\ all_content' = <<>> /\ pcB' = "generate"
    /\ UNCHANGED <<warehouse, pending, reported, varsE, max_content, processed_count,
                   error_count, calls, batch_no, exported, exceptR>>

\* lines 512-514: an exception of a step is printed and raised again
RunRaises ==
    /\ \/ pcR = "structure" /\ pcE = "raised"
       \/ pcR = "generate" /\ pcB = "raised"
    /\ pcR' = "raised"
    /\ UNCHANGED <<warehouse, pending, reported, varsE, varsB, exceptR>>

\* lines 504-510: the summary, return output_files
RunReturn ==
    /\ pcR = "generate" /\ exported.op = "save_generated"
    /\ pcR' = "done"
    /\ UNCHANGED <<warehouse, pending, reported, varsE, varsB, exceptR>>

\* the events structure_event_data emits never make identify_content_angles
\* raise (the extractors turn every null into a number), so GenerateRaises
\* has no part in a run
NextRun ==
    \/ QueryView \/ QueryViewFails \/ RunStructure
    \/ StructureEventData \/ StructureRow \/ StructureRowRaises \/ StructureReturn
    \/ RunNoEvents \/ RunGenerate \/ RunRaises
    \/ GenerateForEvent \/ ReturnGenerated \/ SaveGeneratedContent \/ RunReturn

SpecRun == InitRun /\ [][NextRun]_vars

----------------------------------------------------------------------------
(* The dashboard's data loading, src/streamlit_app.py:84-246.  Every click
   reruns the script: main() builds a new SocialContentApp, whose
   initialize_components makes a new pipeline and a new connector and sets
   last_error to None, and the page renders again.  The app runs locally
   (IS_LOCAL_DEV), where a connector holds a connection of its own. *)

RECURSIVE StructureFrom(_, _, _)
StructureFrom(df, i, now) ==
    IF i > Len(df.base) THEN <<>>
    ELSE <<Enrich("pipeline", df, i, now)>> \o StructureFrom(df, i + 1, now)

\* structure_event_data as one call: [] for an empty base result; an
\* exception of any row ends it
structure_event_data(df, now) ==
    IF df.base = <<>> THEN [raised |-> FALSE, events |-> <<>>]
    ELSE IF \E i \in DOMAIN df.base : BuildRaises(Enrich("pipeline", df, i, now))
    THEN [raised |-> TRUE, events |-> <<>>]
    ELSE [raised |-> FALSE, events |-> StructureFrom(df, 1, now)]

\* query_top_events_views on the pipeline's connector: a view whose query
\* raised gets an empty DataFrame
query_top_events_views(held, failing) ==
    [base |-> IF "base" \in failing THEN <<>> ELSE held.base,
     hist |-> IF "hist" \in failing THEN <<>> ELSE held.hist,
     trend |-> IF "trend" \in failing THEN <<>> ELSE held.trend,
     market |-> IF "market" \in failing THEN <<>> ELSE held.market]

\* the body of load_snowflake_data (lines 154-168).  The app's connector
\* connects; the queries run on the pipeline's connector, whose execute_query
\* connects by itself (src/data_processing.py:72-74); close_connection is
\* called on the app's connector.  failed is kept with the result to tell
\* which queries raised.
load_snowflake_data(app_connects, held, q) ==
    IF ~app_connects
    THEN [dataframes |-> NoFrames, error |-> "Failed to connect to Snowflake",
          failed |-> {}, connections |-> NoConnections]
    ELSE [dataframes |-> query_top_events_views(held, q.failing), error |-> "",
          failed |-> q.failing,
          connections |-> [app |-> "closed", pipeline |-> q.pipeline]]

\* lines 215-246: what the session holds after a load that returned result
AfterLoad(session, result) ==
    IF result.error # ""
    THEN [session EXCEPT !.last_error = result.error, !.data_loaded = FALSE]
    ELSE IF result.dataframes.base = <<>>
    THEN [session EXCEPT !.last_error = "No data returned from Snowflake views",
                         !.data_loaded = FALSE]
    ELSE IF structure_event_data(result.dataframes, 0).raised
    THEN [session EXCEPT !.snowflake_data = result.dataframes,
                         !.current_step = "select_events",
                         !.last_error = "Unexpected error during data loading",
                         !.data_loaded = FALSE]
    ELSE [session EXCEPT !.snowflake_data = result.dataframes,
                         !.current_step = "select_events",
                         !.last_error = "",
                         !.data_loaded = TRUE,
                         !.structured_events =
                             structure_event_data(result.dataframes, 0).events]

\* one rerun of the page: initialize_components clears last_error, then
\* render_data_loading_section loads if the button was clicked or no data is
\* loaded; load_snowflake_data runs only when the cache has no entry, and its
\* return value, a failure included, becomes the entry
Rerun(load_data, session, entry, app_connects, held, q) ==
    LET should_load == load_data \/ ~session.data_loaded
        fresh == load_snowflake_data(app_connects, held, q)
        result == IF entry.valid THEN entry.result
                  ELSE [dataframes |-> fresh.dataframes, error |-> fresh.error,
                        failed |-> fresh.failed]
    IN  IF ~should_load
        THEN [session |-> [session EXCEPT !.last_error = ""], cache |-> entry,
              executed |-> FALSE, connections |-> NoConnections,
              load |-> [clicked |-> load_data, should_load |-> FALSE, replayed |-> FALSE,
                        up |-> app_connects, failed |-> {}]]
        ELSE [session |-> AfterLoad([session EXCEPT !.last_error = ""], result),
              cache |-> [valid |-> TRUE, result |-> result],
              executed |-> ~entry.valid,
              connections |-> fresh.connections,
              load |-> [clicked |-> load_data, should_load |-> TRUE,
                        replayed |-> entry.valid, up |-> app_connects,
                        failed |-> result.failed]]

\* what the views hold when they are queried: nothing, or one event
DashFrames ==
    {Frames(cases, {}, "none") : cases \in UNION {[1..n -> RunCases] : n \in 0..1}}

\* which queries raise, and whether the pipeline's connector got a connection
QueryOutcomes ==
    {[failing |-> {}, pipeline |-> "open"],
     [failing |-> {"market"}, pipeline |-> "open"],
     [failing |-> {"base"}, pipeline |-> "open"],
     [failing |-> {"base", "hist", "trend", "market"}, pipeline |-> "none"]}

InitDashboard ==
    /\ up \in BOOLEAN
    /\ cache = EmptyCache /\ session_state = InitialSession
    /\ connections = NoConnections /\ last_load = NoLoad
    /\ IdleC /\ IdleP /\ IdleB /\ IdleE /\ IdleG /\ IdleR

Rerender(load_data, session, entry) ==
    \E held \in DashFrames, q \in QueryOutcomes :
        LET r == Rerun(load_data, session, entry, up, held, q)
        IN  /\ session_state' = r.session
            /\ cache' = r.cache
            /\ connections' = IF r.executed THEN r.connections ELSE connections
            /\ last_load' = r.load

\* the button "Load Latest Data" (lines 186-187, 209-246)
LoadLatestData ==
    /\ Rerender(TRUE, session_state, cache)
    /\ UNCHANGED <<up, exceptD>>

\* the button "Clear Cache" (lines 194-199), and the rest of the page
ClearCache ==
    /\ Rerender(FALSE, session_state, EmptyCache)
    /\ UNCHANGED <<up, exceptD>>

\* the button "Reset App": reset_app_state (lines 135-149) and the rerun it asks for
ResetApp ==
    /\ Rerender(FALSE, InitialSession, cache)
    /\ UNCHANGED <<up, exceptD>>

\* ttl=300: the entry is dropped five minutes after it was made
CacheExpires ==
    /\ cache.valid
    /\ cache' = EmptyCache
    /\ UNCHANGED <<up, session_state, connections, last_load, exceptD>>

WarehouseFails ==
    /\ up /\ up' = FALSE
    /\ UNCHANGED <<cache, session_state, connections, last_load, exceptD>>

WarehouseRecovers ==
    /\ ~up /\ up' = TRUE
    /\ UNCHANGED <<cache, session_state, connections, last_load, exceptD>>

NextDashboard ==
    \/ LoadLatestData \/ ClearCache \/ ResetApp \/ CacheExpires
    \/ WarehouseFails \/ WarehouseRecovers

SpecDashboard == InitDashboard /\ [][NextDashboard]_vars

----------------------------------------------------------------------------
(* Claims about the classifier (checked under SpecClassify) *)

CareerLabels == {"major_spike", "significant_spike", "notable_performance"}
IntlLabels == {"international_phenomenon", "international_appeal"}
GenreLabels == {"genre_leader", "top_performer"}
PriceLabels == {"pricing_surge", "demand_indicator"}
TourLabels == {"tour_standout"}
FallbackLabels == {"top_performance", "trending_event"}
Categories == {CareerLabels, IntlLabels, GenreLabels, PriceLabels, TourLabels}

NoDuplicates(r) == \A i, j \in DOMAIN r : r[i] = r[j] => i = j

\* what an event meets, read off the threshold table of the specification
Unranked(e) == e.ytd_genre_rank.k = "missing"
MeetsTour(e) == GT(e.vs_tour_avg_multiple, 150) /\ Truthy(e.tour_name)
MeetsNothing(e) ==
    /\ ~GE(e.vs_career_avg_multiple, Fx(2))
    /\ ~GT(e.international_pct, Fx(25))
    /\ (Unranked(e) \/ ~LE(e.ytd_genre_rank, 10))
    /\ ~GT(e.price_appreciation_pct, Fx(15))
    /\ ~MeetsTour(e)

\* a label in the result is the one of the highest bucket the event meets
HighestBucketOnly(e, r) ==
    /\ "major_spike" \in Range(r) => GE(e.vs_career_avg_multiple, Fx(5))
    /\ "significant_spike" \in Range(r) =>
           GE(e.vs_career_avg_multiple, Fx(3)) /\ ~GE(e.vs_career_avg_multiple, Fx(5))
    /\ "notable_performance" \in Range(r) =>
           GE(e.vs_career_avg_multiple, Fx(2)) /\ ~GE(e.vs_career_avg_multiple, Fx(3))
    /\ "international_phenomenon" \in Range(r) => GT(e.international_pct, Fx(40))
    /\ "international_appeal" \in Range(r) =>
           GT(e.international_pct, Fx(25)) /\ ~GT(e.international_pct, Fx(40))
    /\ "genre_leader" \in Range(r) => LE(e.ytd_genre_rank, 3)
    /\ "top_performer" \in Range(r) =>
           LE(e.ytd_genre_rank, 10) /\ ~LE(e.ytd_genre_rank, 3)
    /\ "pricing_surge" \in Range(r) => GT(e.price_appreciation_pct, Fx(30))
    /\ "demand_indicator" \in Range(r) =>
           GT(e.price_appreciation_pct, Fx(15)) /\ ~GT(e.price_appreciation_pct, Fx(30))
    /\ "tour_standout" \in Range(r) => MeetsTour(e)

OnePerCategory(e, r) ==
    /\ NoDuplicates(r)
    /\ \A cat \in Categories : Cardinality({i \in DOMAIN r : r[i] \in cat}) <= 1
    /\ HighestBucketOnly(e, r)

\* C1: both classifiers return at most one label per category, the label of
\* the highest threshold the event meets, and therefore no duplicate label.
C1_OneLabelPerCategory ==
    /\ pcC \in {"batch", "done"} => OnePerCategory(event, angles)
    /\ pcC = "done" => OnePerCategory(event, top3)

\* an event that meets the highest bucket of two categories (and so the lower
\* buckets as well) has been classified
C1_Witness ==
    /\ pcC = "done"
    /\ GE(event.vs_career_avg_multiple, Fx(5))
    /\ GT(event.international_pct, Fx(40))
    /\ angles = <<"major_spike", "international_phenomenon">>

CategoryOrder ==
    <<CareerLabels, IntlLabels, GenreLabels, PriceLabels, TourLabels, FallbackLabels>>
CategoryIndex(label) == CHOOSE n \in DOMAIN CategoryOrder : label \in CategoryOrder[n]
InCategoryOrder(r) ==
    \A i, j \in DOMAIN r : i < j => CategoryIndex(r[i]) < CategoryIndex(r[j])

FiveAngles ==
    <<"major_spike", "international_phenomenon", "genre_leader", "pricing_surge",
      "tour_standout">>
IsExampleEvent(e) ==
    /\ e.vs_career_avg_multiple = Num(Fx(6))
    /\ e.international_pct = Num(Fx(50))
    /\ e.ytd_genre_rank = Num(2)
    /\ e.price_appreciation_pct = Num(Fx(35))
    /\ e.vs_tour_avg_multiple = Num(Fx(2))
    /\ e.tour_name = Str("X")

\* C2 as stated: labels come in category order and, for the example event,
\* classify returns exactly the five labels, whichever classifier is asked.
C2_Original ==
    pcC = "done" =>
        /\ InCategoryOrder(angles) /\ InCategoryOrder(top3)
        /\ IsExampleEvent(event) => angles = FiveAngles /\ top3 = FiveAngles

\* C2 as amended: labels come in category order; for the example event
\* BatchProcessor._identify_content_angles returns exactly the five labels and
\* SocialContentPipeline.identify_content_angles the first three of them.
C2_OrderAndExample ==
    /\ pcC \in {"batch", "done"} =>
        /\ InCategoryOrder(angles)
        /\ IsExampleEvent(event) => angles = FiveAngles
    /\ pcC = "done" =>
        /\ InCategoryOrder(top3)
        /\ IsExampleEvent(event) =>
               top3 = <<"major_spike", "international_phenomenon", "genre_leader">>

C2_Witness == pcC = "done" /\ IsExampleEvent(event) /\ Len(angles) = 5 /\ Len(top3) = 3

FallbackFor(e) ==
    IF LE(e.rank, 5) THEN <<"top_performance">> ELSE <<"trending_event">>
FallbackRule(e, r) ==
    /\ r # <<>>
    /\ (Range(r) \cap FallbackLabels # {}) <=> MeetsNothing(e)
    /\ MeetsNothing(e) => r = FallbackFor(e)

\* C3: the result is never empty; a fallback label appears iff no threshold of
\* any category is met, and then the result is [top_performance] for rank <= 5
\* and [trending_event] otherwise.
C3_Fallback ==
    /\ pcC \in {"batch", "done"} => FallbackRule(event, angles)
    /\ pcC = "done" => FallbackRule(event, top3)

C3_Witness ==
    /\ pcC = "done" /\ MeetsNothing(event)
    /\ event.rank = Num(3) /\ angles = <<"top_performance">> /\ top3 = angles

C3_WitnessTrending ==
    /\ pcC = "done" /\ MeetsNothing(event)
    /\ event.rank = Num(9) /\ angles = <<"trending_event">> /\ top3 = angles

----------------------------------------------------------------------------
(* Claims about the priority scorer (checked under SpecPriority) *)

\* the adjustments as the specification lists them
SpecRankBonus(e) ==
    IF e.rank.v <= 3 THEN 3 ELSE IF e.rank.v <= 5 THEN 2 ELSE IF e.rank.v <= 10 THEN 1 ELSE 0
SpecAngleBonus(angle) ==
    IF angle \in {"major_spike", "international_phenomenon", "genre_leader", "pricing_surge"}
    THEN 2 ELSE 0
SpecCompletenessBonus(e) == IF e.completeness_score.v = 3 THEN 1 ELSE 0
SpecCareerBonus(e) ==
    IF GE(e.vs_career_avg_multiple, Fx(5)) THEN 2
    ELSE IF GE(e.vs_career_avg_multiple, Fx(3)) THEN 1 ELSE 0
SpecSum(e, angle) ==
    5 + SpecRankBonus(e) + SpecAngleBonus(angle) + SpecCompletenessBonus(e)
      + SpecCareerBonus(e)

IsBoundaryCase ==
    /\ pevent.rank = Num(3) /\ pangle = "major_spike"
    /\ pevent.completeness_score = Num(3)
    /\ pevent.vs_career_avg_multiple = Num(Fx(6))

\* C4: priority(event, angle) = min(10, 5 + rank bonus + angle bonus +
\* completeness bonus + career bonus), always an integer of 1..10; rank 3,
\* major_spike, completeness 1.0, career multiple 6.0 sums to 13 and yields 10.
C4_PriorityFormula ==
    pcP = "done" =>
        /\ priority = Min(10, SpecSum(pevent, pangle))
        /\ priority \in 1..10
        /\ IsBoundaryCase => SpecSum(pevent, pangle) = 13 /\ priority = 10

C4_Witness == pcP = "done" /\ IsBoundaryCase /\ priority = 10

\* the career multiple a comparison sees: the scorer's default 1 for a missing key
CareerOf(e) == Get(e.vs_career_avg_multiple, Fx(1))

\* C5: for a fixed angle and completeness score, a rank number that is not
\* larger (same career multiple) or a career multiple that is not smaller (same
\* rank) never yields a lower priority.
C5_Monotone ==
    pcP = "done" =>
        \A b \in PriorityEvents :
            b.completeness_score = pevent.completeness_score =>
                /\ (b.vs_career_avg_multiple = pevent.vs_career_avg_multiple
                        /\ pevent.rank.v <= b.rank.v)
                   => priority >= calculate_content_priority(b, pangle)
                /\ (b.rank = pevent.rank /\ CareerOf(b).k = "num"
                        /\ GE(CareerOf(pevent), CareerOf(b).v))
                   => priority >= calculate_content_priority(b, pangle)

\* a better rank and a higher career multiple each raised the priority strictly
C5_Witness ==
    /\ pcP = "done" /\ pevent.rank = Num(3) /\ pevent.vs_career_avg_multiple = Num(Fx(3))
    /\ \E b \in PriorityEvents :
          /\ b.completeness_score = pevent.completeness_score
          /\ b.vs_career_avg_multiple = pevent.vs_career_avg_multiple
          /\ b.rank.v > 3 /\ priority > calculate_content_priority(b, pangle)
    /\ \E b \in PriorityEvents :
          /\ b.completeness_score = pevent.completeness_score
          /\ b.rank = pevent.rank /\ GE(Num(Fx(3)), CareerOf(b).v) /\ CareerOf(b).k = "num"
          /\ priority > calculate_content_priority(b, pangle)

----------------------------------------------------------------------------
(* Claims about the batch run (checked under SpecBatch) *)

\* an item made from a failed call: its texts carry the error message
IsErrorItem(item) == item.visual_text.mark /\ item.caption.mark

FailedCalls == {i \in DOMAIN calls : ~calls[i].ok}
ErrorItems == {i \in DOMAIN all_content : IsErrorItem(all_content[i])}
SuccessfulItems == {i \in DOMAIN all_content : ~IsErrorItem(all_content[i])}

\* every requested event/angle pair has its item, in the order of the calls
EveryPairProcessed ==
    /\ Len(all_content) = Len(calls)
    /\ \A i \in DOMAIN calls :
          /\ all_content[i].event_id = calls[i].event_id
          /\ all_content[i].content_angle = calls[i].angle

\* C6: when exactly one of the N text-generation calls of a batch fails, the
\* batch call returns with N-1 successful items and one item flagged as an
\* error, its error counter is 1, and every other pair is still processed.
\* The code does not keep this: the failure is turned into an item inside
\* create_social_post, the event counts as processed and error_count stays 0.
C6_ErrorIsolation ==
    (pcB = "returned" /\ Cardinality(FailedCalls) = 1 /\ EveryPairProcessed)
        => /\ Cardinality(SuccessfulItems) = Len(calls) - 1
           /\ Cardinality(ErrorItems) = 1
           /\ error_count = 1

\* C7: an item made from a failed text-generation call never appears in a
\* priority-based export (webhook payload, priority filter).  The code does not
\* keep this: both exports select on content_priority alone.
C7_ErrorItemsExcluded ==
    (exported.op \in {"zapier", "filter"})
        => \A i \in DOMAIN exported.items : ~exported.items[i].visual_text.mark

----------------------------------------------------------------------------
(* Claims about the enrichment (checked under SpecEnrich) *)

NullCell(x) == x.k \in {"missing", "none", "nan"}
Unusable(x) == x.k \in {"missing", "none", "nan", "bad"}

\* a base row without one of its mandatory fields
LacksMandatory(r) ==
    \/ NullCell(r.EVENT_NAME) \/ NullCell(r.EVENT_PARENT_CATEGORY_NAME)
    \/ Unusable(r.RECENT_GMS_RANK)

Emitted(event_id) ==
    \E i \in DOMAIN structured_events : structured_events[i].event_id = event_id

\* C8: when a base row lacks a mandatory field, the enrichment loop skips that
\* row, emits no record for it and goes on, so that every other base row still
\* yields its enriched event.  The code does not keep this: the loop of
\* structure_event_data has no handler, so a rank that int() refuses or a
\* column that is not there ends the whole call, and a null name is emitted
\* as the text 'None'.
C8_SkipsMalformedRows ==
    (enricher = "pipeline" /\ pcE \in {"returned", "raised"})
        => /\ pcE = "returned"
           /\ \A i \in DOMAIN dataframes.base :
                 Emitted(dataframes.base[i].EVENT_ID)
                    <=> ~LacksMandatory(dataframes.base[i])

MarketUnranked(event_id) ==
    \/ IsNoRow(MatchingRow(dataframes.market, event_id))
    \/ Unusable(MatchingRow(dataframes.market, event_id).YTD_GENRE_RANK)

HasGenreLabel(e) ==
    \/ Range(BP_identify_content_angles(e)) \cap {"genre_leader", "top_performer"} # {}
    \/ Range(SCP_identify_content_angles(e)) \cap {"genre_leader", "top_performer"} # {}

\* C9: when the market row is absent, or its year-to-date genre rank is
\* absent, null or no integer, the genre rank of the enriched event (as the
\* classifier reads it) is the sentinel 999 and the classifier emits neither
\* genre_leader nor top_performer.  The code does not keep this: the pipeline's
\* _safe_int falls back to 0, which the classifier takes for a rank within the
\* top three.
C9_UnrankedSentinel ==
    \A i \in DOMAIN structured_events :
        MarketUnranked(structured_events[i].event_id)
            => /\ Get(structured_events[i].ytd_genre_rank, 999) = Num(999)
               /\ ~HasGenreLabel(structured_events[i])

CareerUnknown(event_id) ==
    \/ IsNoRow(MatchingRow(dataframes.hist, event_id))
    \/ Unusable(MatchingRow(dataframes.hist, event_id).VS_CAREER_AVG_MULTIPLE)

NoCareerEffect(e) ==
    /\ CareerAngle(Get(e.vs_career_avg_multiple, 0)) = <<>>
    /\ SCP_CareerAngle(Get(e.vs_career_avg_multiple, 0)) = <<>>
    /\ CareerBoost(Get(e.vs_career_avg_multiple, 1)) = 0

\* C10: when the historical row is absent, or its career multiple is absent,
\* null or no float, the career multiple of the enriched event (as the scorer
\* reads it) is the default 1, and the event gets no career-spike label and
\* no career bonus.  The code does not keep the default: the pipeline's
\* _safe_float falls back to 0.0, and a NaN goes through float() unchanged.
C10_CareerDefault ==
    \A i \in DOMAIN structured_events :
        CareerUnknown(structured_events[i].event_id)
            => /\ Get(structured_events[i].vs_career_avg_multiple, 1) = Num(Fx(1))
               /\ NoCareerEffect(structured_events[i])

\* the rows of a result with the given event id, by their position
MatchPositions(df, event_id) == {i \in DOMAIN df : df[i].EVENT_ID = event_id}

\* the earliest of them in table order, None when there is none
FirstMatch(df, event_id) ==
    IF MatchPositions(df, event_id) = {} THEN NoRow
    ELSE df[CHOOSE i \in MatchPositions(df, event_id) :
                \A j \in MatchPositions(df, event_id) : i <= j]

\* C11: for every base row and each side table the join returns the first row
\* in table order with the base row's event id, and None (without raising)
\* when the table is empty or has no such row; several rows with the same id
\* are not an error.
C11_JoinFirstMatch ==
    joined.done =>
        /\ joined.hist = FirstMatch(dataframes.hist, joined.event_id)
        /\ joined.trend = FirstMatch(dataframes.trend, joined.event_id)
        /\ joined.market = FirstMatch(dataframes.market, joined.event_id)

\* a join that had two rows with the id to choose from, neither of them the
\* first row of the result
C11_Witness ==
    /\ joined.done
    /\ Cardinality(MatchPositions(dataframes.hist, joined.event_id)) = 2
    /\ dataframes.hist[1].EVENT_ID # joined.event_id
    /\ ~IsNoRow(joined.hist)

\* how many of the three side rows the event id has
RowsPresent(event_id) ==
    Cardinality({t \in {"hist", "trend", "market"} :
                    MatchPositions(dataframes[t], event_id) # {}})

\* C12: the completeness score of every enriched event (kept in thirds) is one
\* of 0, 1/3, 2/3, 1 and is the number of the historical, trend and market
\* rows present for the event, divided by three, whatever the rows hold; the
\* three has_* flags say which rows were present.
C12_CompletenessScore ==
    \A i \in DOMAIN structured_events :
        LET e == structured_events[i]
        IN  /\ e.completeness_score.k = "num"
            /\ e.completeness_score.v \in 0..3
            /\ e.completeness_score.v = RowsPresent(e.event_id)
            /\ e.has_historical_context <=> MatchPositions(dataframes.hist, e.event_id) # {}
            /\ e.has_trend_analysis <=> MatchPositions(dataframes.trend, e.event_id) # {}
            /\ e.has_market_positioning <=> MatchPositions(dataframes.market, e.event_id) # {}

\* an event with two rows present, both holding a null where the classifier
\* reads: the score is 2/3 all the same
C12_Witness ==
    \E i \in DOMAIN structured_events :
        /\ structured_events[i].completeness_score = Num(2)
        /\ ~structured_events[i].has_trend_analysis
        /\ Unusable(FirstMatch(dataframes.hist, structured_events[i].event_id).VS_CAREER_AVG_MULTIPLE)
        /\ Unusable(FirstMatch(dataframes.market, structured_events[i].event_id).YTD_GENRE_RANK)

\* the source cell of a percentage: the column of the event's row in a result,
\* Missing when the event has no row there
SourceCell(df, event_id, column) ==
    IF IsNoRow(FirstMatch(df, event_id)) THEN Missing
    ELSE FirstMatch(df, event_id)[column]

\* value is the source fraction (in hundredths) times 100, or 0 for a source
\* that is missing or null, and lies between 0 and 100
IsPercentageOf(value, source) ==
    /\ value.k = "num"
    /\ value.v = (IF source.k = "num" THEN source.v * 100 ELSE 0)
    /\ 0 <= value.v /\ value.v <= Fx(100)

\* C13: every percentage field of an enriched event is its 0-1 source
\* fraction times 100, taken once (0 when the source is missing), and lies in
\* [0,100].  The code does not keep this: a null that arrives as NaN passes
\* float() and the field is NaN, and a fraction above 1 is not bounded.
C13_Percentages ==
    \A i \in DOMAIN structured_events :
        LET e == structured_events[i]
        IN  /\ IsPercentageOf(Get(e.international_pct, 0),
                              SourceCell(dataframes.base, e.event_id, "INTERNATIONAL_GMS_PCT"))
            /\ IsPercentageOf(Get(e.price_appreciation_pct, 0),
                              SourceCell(dataframes.trend, e.event_id, "PRICE_APPRECIATION_PCT"))
            /\ IsPercentageOf(Get(e.last_7d_market_share_pct, 0),
                              SourceCell(dataframes.market, e.event_id, "LAST_7D_MARKET_SHARE_PCT"))
            /\ enricher = "pipeline" =>
                  IsPercentageOf(Get(e.ytd_market_share_pct, 0),
                                 SourceCell(dataframes.market, e.event_id, "YTD_MARKET_SHARE_PCT"))

\* a classified name that can be shown: not null, not empty after trimming,
\* not one of the texts a null turns into
ShowableName(x) ==
    x.k = "str" /\ ~StripsToEmpty(x) /\ x.s \notin {"None", "nan"}

DisplayNameFor(base_row) ==
    IF ShowableName(base_row.CLASSIFIED_ARTIST_NAME) THEN base_row.CLASSIFIED_ARTIST_NAME
    ELSE IF base_row.EVENT_CATEGORY_NAME.k = "str" THEN base_row.EVENT_CATEGORY_NAME
    ELSE Str("Unknown")

\* C14: the artist display name of an enriched event is the classified artist
\* name when that is non-null, non-empty after trimming and neither "None" nor
\* "nan"; else the category name; else "Unknown".  The code does not keep
\* this: the pipeline falls back only when the column is not there, and
\* get_artist_name lets NaN and "nan" through and turns a null category into
\* the text of the null.
C14_ArtistDisplayName ==
    \A i \in DOMAIN structured_events :
        structured_events[i].classified_artist_name
            = DisplayNameFor(FirstMatch(dataframes.base, structured_events[i].event_id))

\* slot i of a trend row has both its country name and its fraction
SlotPresent(trend_row, i) ==
    /\ trend_row[CountryColumn(i)].k = "str" /\ trend_row[CountryColumn(i)].s # ""
    /\ trend_row[PctColumn(i)].k = "num"

RECURSIVE ExpectedCountries(_, _)
ExpectedCountries(trend_row, i) ==
    IF i > 3 \/ IsNoRow(trend_row) THEN <<>>
    ELSE (IF SlotPresent(trend_row, i)
          THEN <<[country |-> trend_row[CountryColumn(i)],
                  percentage |-> Num(trend_row[PctColumn(i)].v * 100)]>>
          ELSE <<>>)
         \o ExpectedCountries(trend_row, i + 1)

\* C15: the top-buyer-country list holds, in slot order 1..3, exactly the slots
\* whose country name and percentage are both present in the trend row, never
\* more than three.  The code does not keep this: the DataProcessor tests the
\* country only and fills a missing percentage with 0, and the pipeline takes
\* a NaN for a country and for a percentage.
C15_TopBuyerCountries ==
    \A i \in DOMAIN structured_events :
        /\ Len(structured_events[i].top_buyer_countries) <= 3
        /\ structured_events[i].top_buyer_countries
              = ExpectedCountries(FirstMatch(dataframes.trend, structured_events[i].event_id), 1)

----------------------------------------------------------------------------
(* Claims about text generation (checked under SpecGenerate) *)

\* the classes in their fixed order: a text is of a class when it contains one
\* of the phrases of "any" (if there are any) and all the phrases of "all"
ErrorRules ==
    << [class |-> "rate-limit", any |-> {"rate_limit"}, all |-> {}],
       [class |-> "auth/invalid-key", any |-> {"invalid_api_key", "unauthorized"}, all |-> {}],
       [class |-> "model-unavailable", any |-> {}, all |-> {"model", "does not exist"}],
       [class |-> "network/connection", any |-> {"connection", "network"}, all |-> {}],
       [class |-> "timeout", any |-> {"timeout"}, all |-> {}],
       [class |-> "billing/quota", any |-> {"billing", "quota"}, all |-> {}],
       [class |-> "unknown", any |-> {}, all |-> {}] >>

RuleMatches(rule, error_msg) ==
    /\ rule.any # {} => rule.any \cap error_msg # {}
    /\ rule.all \subseteq error_msg

ClassOf(error_msg) ==
    ErrorRules[CHOOSE i \in DOMAIN ErrorRules :
                  /\ RuleMatches(ErrorRules[i], error_msg)
                  /\ \A j \in 1..(i - 1) : ~RuleMatches(ErrorRules[j], error_msg)].class

ClassMessage(class) ==
    CASE class = "rate-limit" -> "Rate limit exceeded. Please wait a moment and try again."
      [] class = "auth/invalid-key" ->
            "Invalid API key. Please check your OpenAI API key in Snowflake secrets."
      [] class = "model-unavailable" ->
            "Model not available. Check your OpenAI plan or use a different model."
      [] class = "network/connection" ->
            "Network connection error. Snowflake may be blocking external API calls."
      [] class = "timeout" -> "Request timeout. This may indicate network restrictions."
      [] class = "billing/quota" -> "Billing or quota issue. Check your OpenAI account status."
      [] OTHER -> "OpenAI API error"

ErrorTextOf(class) == [mark |-> TRUE, body |-> <<ClassMessage(class)>>]

\* C17: a failed text-generation call is put into exactly one of the classes
\* rate-limit, auth/invalid-key, model-unavailable, network/connection,
\* timeout, billing/quota, unknown: the first in that order whose phrases the
\* lowercased error text contains, unknown when none does; the call returns a
\* result flagged as an error that carries the class's message.
C17_ErrorClassification ==
    (pcG = "done" /\ ~api_outcome.ok)
        => /\ post.error
           /\ post.visual_text = ErrorTextOf(ClassOf(api_outcome.msg))
           /\ post.caption = ErrorTextOf(ClassOf(api_outcome.msg))

\* an error text that three rules match: the earliest of them wins
C17_Witness ==
    /\ pcG = "done" /\ ~api_outcome.ok
    /\ api_outcome.msg = {"timeout", "network", "quota"}
    /\ post.error
    /\ post.visual_text = ErrorTextOf("network/connection")

\* no line of the answer contains a section header
NoHeader(lines) == \A i \in DOMAIN lines : lines[i].kind \in {"plain", "blank"}

\* the non-empty lines shorter than 100 characters, by position
ShortLines(lines) == {i \in DOMAIN lines : lines[i].kind # "blank" /\ lines[i].len < 100}
FirstShort(lines) == CHOOSE i \in ShortLines(lines) : \A j \in ShortLines(lines) : i <= j

RECURSIVE JoinLines(_, _, _)
\* the texts of the non-empty lines other than line "except", from line i on,
\* with one blank between them
JoinLines(lines, i, except) ==
    IF i > Len(lines) THEN <<>>
    ELSE IF i = except \/ lines[i].kind = "blank" THEN JoinLines(lines, i + 1, except)
    ELSE IF JoinLines(lines, i + 1, except) = <<>> THEN <<lines[i].text>>
    ELSE <<lines[i].text, " ">> \o JoinLines(lines, i + 1, except)

\* C18: when the answer has no recognised section header, visual_text is the
\* first non-empty line shorter than 100 characters and caption is all the
\* other non-empty lines, joined in their original order.
C18_NoHeaderParse ==
    (pcG = "done" /\ api_outcome.ok /\ NoHeader(api_outcome.content)
        /\ ShortLines(api_outcome.content) # {})
        => /\ post.visual_text.body
                = <<api_outcome.content[FirstShort(api_outcome.content)].text>>
           /\ post.caption.body
                = JoinLines(api_outcome.content, 1, FirstShort(api_outcome.content))

\* a long line, then the short one, then another: the caption is made of the
\* first and the third
C18_Witness ==
    /\ pcG = "done" /\ api_outcome.ok /\ NoHeader(api_outcome.content)
    /\ Len(api_outcome.content) = 3
    /\ api_outcome.content[1].len = 100 /\ api_outcome.content[2].len = 99
    /\ api_outcome.content[3].len = 20
    /\ post.visual_text.body = <<"L2">>
    /\ post.caption.body = <<"L1", " ", "L3">>

----------------------------------------------------------------------------
(* Claims about the exports (checked under SpecBatch) *)

PostIds == {exported.items[i].id : i \in DOMAIN exported.items}
ItemId(item) == <<item.event_id, item.content_angle>>

\* C20: the webhook payload for a content list and a limit N has exactly
\* min(N, number of items) posts, its content_count is the number of posts,
\* every post is one item of the list with its hashtag list, and no item left
\* out has a strictly higher priority than an item included.
C20_WebhookPayload ==
    exported.op = "zapier" =>
        /\ Len(exported.items) = Min(exported.limit, Len(all_content))
        /\ exported.count = Len(exported.items)
        /\ Cardinality(PostIds) = Len(exported.items)
        /\ \A i \in DOMAIN exported.items :
              /\ \E j \in DOMAIN all_content :
                    /\ ItemId(all_content[j]) = exported.items[i].id
                    /\ all_content[j].content_priority = exported.items[i].priority_score
              /\ Len(exported.items[i].hashtags) \in 2..8
              /\ SubSeq(exported.items[i].hashtags, 1, 2) = <<"#livemusic", "#concerts">>
        /\ \A j \in DOMAIN all_content :
              ItemId(all_content[j]) \notin PostIds =>
                 \A i \in DOMAIN exported.items :
                    all_content[j].content_priority <= exported.items[i].priority_score

\* a payload of one post out of a list that starts with an item of lower
\* priority
C20_Witness ==
    /\ exported.op = "zapier" /\ exported.limit = 1
    /\ Len(all_content) >= 2 /\ Len(exported.items) = 1
    /\ all_content[1].content_priority < exported.items[1].priority_score

\* the priority of an item of an export: the one it carries, or else, for an
\* item of the pipeline, the score of its event and angle
PriorityOfWritten(item) ==
    IF "content_priority" \in DOMAIN item THEN item.content_priority
    ELSE IF "priority_score" \in DOMAIN item THEN item.priority_score
    ELSE calculate_content_priority(item.event_data, item.content_angle)

\* C19: the items written by every export (the JSON saves, the priority
\* filter, the posting schedule, the webhook payload) are in non-increasing
\* priority order, whatever order generation produced them in.
C19_ExportsSorted ==
    exported.op # "none" =>
        \A i, j \in DOMAIN exported.items :
            i < j => PriorityOfWritten(exported.items[i]) >= PriorityOfWritten(exported.items[j])

\* what reading the JSON file of an export back gives: no file when the
\* export raised before open(); strings, integers and lists of strings come
\* back from json.load as they went into json.dump
ReadBack(export) ==
    IF export.raised THEN [exists |-> FALSE, content |-> <<>>]
    ELSE [exists |-> TRUE, content |-> export.items]

\* the list a JSON save is handed, in the order the save puts it in
Handed(export) ==
    IF export.op = "save" THEN SortByPriority(all_content) ELSE all_content

SameExportFields(a, b) ==
    /\ a.event_id = b.event_id /\ a.content_angle = b.content_angle
    /\ a.visual_text = b.visual_text /\ a.caption = b.caption
    /\ ("content_priority" \in DOMAIN a) = ("content_priority" \in DOMAIN b)
    /\ "content_priority" \in DOMAIN a => a.content_priority = b.content_priority

\* C21: serialising a content list to the JSON export and reading the file
\* back gives a content array of the same length whose items have the
\* event_id, content_angle, visual_text, caption and priority of the items
\* exported.
C21_ExportRoundTrip ==
    exported.op \in {"save", "save_generated"} =>
        LET back == ReadBack(exported)
        IN  /\ back.exists
            /\ Len(back.content) = Len(Handed(exported))
            /\ \A i \in DOMAIN back.content :
                  SameExportFields(back.content[i], Handed(exported)[i])

----------------------------------------------------------------------------
(* Claims about the pipeline run (checked under SpecRun) *)

\* C22: a failed view query is fatal for the run: once a query has failed
\* (and the failure was reported) the run structures no event from the
\* results it has and makes no text-generation call.
C22_QueryFailureFatal ==
    reported # {} =>
        /\ structured_events = <<>>
        /\ events = <<>> /\ idx = 0 /\ all_content = <<>>

\* structure_event_data never emits an event on which the pipeline's
\* classifier raises
RunAnglesNeverRaise ==
    \A i \in DOMAIN structured_events : ~SCP_AnglesRaise(structured_events[i])

----------------------------------------------------------------------------
(* Claims about the two classifiers (checked under SpecClassify) *)

IsPrefixOfLength(short, long, n) ==
    /\ Len(short) = Min(n, Len(long))
    /\ \A i \in DOMAIN short : short[i] = long[i]

\* C23: the two classifiers agree up to truncation: the pipeline's list is
\* the first three labels of the batch's list for the same event, same labels
\* in the same order, and the batch's selection for an event is the first
\* max_content labels of its list.
C23_ClassifiersAgree ==
    /\ pcC \in {"done", "selected"} => IsPrefixOfLength(top3, angles, 3)
    /\ pcC = "selected" => IsPrefixOfLength(selected.angles, angles, selected.max)

\* an event with more than three labels, cut to three by the pipeline and to
\* two by the batch
C23_Witness ==
    /\ pcC = "selected" /\ Len(angles) > 3
    /\ Len(top3) = 3 /\ selected.max = 2 /\ Len(selected.angles) = 2

----------------------------------------------------------------------------
(* Claims about the two priority scores (checked under SpecPriority) *)

\* C24: the priority the dashboard's exports write for an item equals the
\* Priority Scorer's value for the same event and angle.
C24_DashboardPriority ==
    pcP = "scored" => priority_score = priority

----------------------------------------------------------------------------
(* Claims about the batch counters (checked under SpecBatch) *)

RaisingEvents == {i \in DOMAIN events : AnglesRaise(events[i])}
ItemsOfEvent(i) == {j \in DOMAIN all_content : all_content[j].event_id = events[i].event_id}

----------------------------------------------------------------------------
(* Claims about the posting schedule (checked under SpecBatch) *)

\* C26: for a non-empty content list of process_events_batch,
\* create_posting_schedule returns a schedule (it does not raise) whose
\* total_posts is the number of content items, each item having its one slot.
C26_ScheduleComplete ==
    (exported.op = "schedule" /\ all_content # <<>>) =>
        /\ ~exported.raised
        /\ exported.count = Len(all_content)
        /\ Len(exported.items) = Len(all_content)

----------------------------------------------------------------------------
(* Claims about the response parser (checked under SpecGenerate) *)

ResponseLines == api_outcome.content
IsHeaderLine(line) == line.kind \in {"visual", "caption", "both"}
ContentLines == {i \in DOMAIN ResponseLines : ResponseLines[i].kind = "plain"}
HeaderLines == {i \in DOMAIN ResponseLines : IsHeaderLine(ResponseLines[i])}
Occurrences(pieces, text) == Cardinality({k \in DOMAIN pieces : pieces[k] = text})
\* the line texts of a parsed value, without the blanks between them
TextsOf(value) == SelectSeq(value.body, LAMBDA piece : piece # " ")
LineOfText(text) == CHOOSE i \in DOMAIN ResponseLines : ResponseLines[i].text = text
InLineOrder(texts) ==
    \A k, l \in DOMAIN texts : k < l => LineOfText(texts[k]) < LineOfText(texts[l])
BeforeAnyHeader == {i \in ContentLines : \A h \in HeaderLines : i < h}

\* C27: every non-empty line without a header phrase is placed in exactly one
\* of visual_text and caption, the lines of each in their original order; a
\* line with a header phrase gives none of its text to either; and of the
\* lines before any header at most one goes to visual_text.
C27_ParserPlacesEveryLine ==
    (pcG = "done" /\ api_outcome.ok) =>
        /\ \A i \in ContentLines :
              Occurrences(TextsOf(post.visual_text), ResponseLines[i].text)
              + Occurrences(TextsOf(post.caption), ResponseLines[i].text) = 1
        /\ \A i \in HeaderLines :
              Occurrences(TextsOf(post.visual_text), ResponseLines[i].text)
              + Occurrences(TextsOf(post.caption), ResponseLines[i].text) = 0
        /\ InLineOrder(TextsOf(post.visual_text)) /\ InLineOrder(TextsOf(post.caption))
        /\ Cardinality({i \in BeforeAnyHeader :
                           Occurrences(TextsOf(post.visual_text), ResponseLines[i].text) = 1}) <= 1

\* a short line before any header, then a visual header, then a line under it:
\* both content lines are in visual_text, the header's text is not
C27_Witness ==
    /\ pcG = "done" /\ api_outcome.ok /\ Len(ResponseLines) = 3
    /\ ResponseLines[1].kind = "plain" /\ ResponseLines[2].kind = "visual"
    /\ ResponseLines[3].kind = "plain"
    /\ TextsOf(post.visual_text) = <<ResponseLines[1].text, ResponseLines[3].text>>
    /\ post.caption.body = <<>>

----------------------------------------------------------------------------
(* Claims about the dashboard's data loading (checked under SpecDashboard) *)

\* C28: after load_snowflake_data has returned, no connection opened during
\* the call is still open: neither the app connector's nor that of the
\* connector the queries ran on.
C28_ConnectionsClosed ==
    connections.app # "open" /\ connections.pipeline # "open"

\* C29: a click on "Load Latest Data" queries the warehouse anew: it is never
\* answered from the cache, so a load clicked while the warehouse accepts
\* connections does not end in the connection failure of an earlier load.
C29_LoadQueriesAnew ==
    last_load.clicked =>
        /\ ~last_load.replayed
        /\ last_load.up => session_state.last_error # "Failed to connect to Snowflake"

\* C30: data_loaded is true only with a non-empty base table in
\* snowflake_data and structured_events being the structuring of that
\* snowflake_data; and after a load attempt that failed (a query raised, the
\* base table was empty, the structuring raised) data_loaded is false and
\* last_error holds the message.
C30_SessionConsistent ==
    /\ session_state.data_loaded =>
          /\ session_state.snowflake_data.base # <<>>
          /\ ~structure_event_data(session_state.snowflake_data, 0).raised
          /\ session_state.structured_events =
                structure_event_data(session_state.snowflake_data, 0).events
    /\ (last_load.should_load /\ last_load.failed # {}) =>
          /\ ~session_state.data_loaded
          /\ session_state.last_error # ""

====
